---- MODULE Spec2Model ----
(***************************************************************************)
(* State-machine model of nemo/collections/asr/modules/audio_modules.py:   *)
(* WPEFilter, MaskBasedDereverbWPE, MaskEstimatorGSS, MaskBasedBeamformer. *)
(*                                                                         *)
(* Numbers.  A real tensor entry is an integer n standing for n / Scale    *)
(* (a binary fixed-point number, rounded towards minus infinity), or one   *)
(* of the three IEEE special values PInf, NInf, NaN.  A complex entry is a *)
(* pair <<re, im>> of such numbers.  Tensors are nested functions and      *)
(* sequences indexed from 1: x[b][c][f][t] is the code's x[b-1,c-1,f-1,t-1].*)
(***************************************************************************)
EXTENDS Integers, Sequences, FiniteSets, TLC

\* ------------------------------------------------------------- bounds
MaxSeed == 2
MaxB == 2
MaxC == 2
MaxF == 2
MaxN == 3
MaxL == 2
MaxDelay == 1
MaxIter == 2

\* resolution of the number format standing for the floating-point dtype
Scale == 64

\* ---------------------------------------------------------- arithmetic
Big == 2 ^ 24
PInf == Big
NInf == 0 - Big
NaN == Big + 1

IsNaN(a) == a = NaN
IsInf(a) == a = PInf \/ a = NInf
IsFinite(a) == a > NInf /\ a < PInf

Abs(a) == IF a < 0 THEN 0 - a ELSE a
Sign(a) == IF a < 0 THEN 0 - 1 ELSE IF a > 0 THEN 1 ELSE 0
Min2(a, b) == IF a <= b THEN a ELSE b
Max2(a, b) == IF a >= b THEN a ELSE b

\* a finite result that leaves the representable range overflows to +/-inf
FRange(v) == IF v >= Big THEN PInf ELSE IF v <= 0 - Big THEN NInf ELSE v

FNeg(a) == IF IsNaN(a) THEN NaN ELSE 0 - a

\* IEEE rules for a sum with a special operand
AddSpecial(a, b) ==
  IF IsNaN(a) \/ IsNaN(b) THEN NaN
  ELSE IF IsInf(a) /\ IsInf(b) THEN (IF a = b THEN a ELSE NaN)
  ELSE IF IsInf(a) THEN a
  ELSE b

FAdd(a, b) ==
  IF IsFinite(a) /\ IsFinite(b) THEN FRange(a + b) ELSE AddSpecial(a, b)

FSub(a, b) == FAdd(a, FNeg(b))

\* IEEE rules for a product with a special operand
MulSpecial(a, b) ==
  IF IsNaN(a) \/ IsNaN(b) \/ a = 0 \/ b = 0 THEN NaN
  ELSE IF Sign(a) * Sign(b) > 0 THEN PInf ELSE NInf

FMul(a, b) ==
  IF IsFinite(a) /\ IsFinite(b)
  THEN (IF a = 0 \/ b = 0 THEN 0
        ELSE IF Abs(a) > (Big * Scale) \div Abs(b)
             THEN (IF Sign(a) * Sign(b) > 0 THEN PInf ELSE NInf)
        ELSE (a \div Scale) * b + ((a % Scale) * b) \div Scale)
  ELSE MulSpecial(a, b)

\* a / b for finite a and finite b > 0
FDivPos(a, b) == ((a \div b) * Scale) + (((a % b) * Scale) \div b)

\* IEEE rules for a quotient with a special operand or a zero divisor
DivSpecial(a, b) ==
  IF IsNaN(a) \/ IsNaN(b) THEN NaN
  ELSE IF IsInf(a) THEN (IF IsInf(b) THEN NaN
                         ELSE IF (a > 0) = (b >= 0) THEN PInf ELSE NInf)
  ELSE IF IsInf(b) THEN 0
  ELSE IF a = 0 THEN NaN ELSE IF a > 0 THEN PInf ELSE NInf

FDiv(a, b) ==
  IF IsFinite(a) /\ IsFinite(b) /\ b # 0
  THEN (IF Abs(a) \div Abs(b) >= Big \div Scale
        THEN (IF Sign(a) * Sign(b) > 0 THEN PInf ELSE NInf)
        ELSE IF b > 0 THEN FDivPos(a, b) ELSE FDivPos(0 - a, 0 - b))
  ELSE DivSpecial(a, b)

RECURSIVE ISqrt(_)
ISqrt(n) ==
  IF n < 2 THEN n
  ELSE LET s == 2 * ISqrt(n \div 4)
       IN  IF (s + 1) * (s + 1) <= n THEN s + 1 ELSE s

FSqrt(a) ==
  IF IsNaN(a) \/ a < 0 THEN NaN
  ELSE IF a = PInf THEN PInf
  ELSE ISqrt(a * Scale)

\* torch.clamp(x, min=lo, max=hi); NaN stays NaN
FClamp(a, lo, hi) == IF IsNaN(a) THEN NaN ELSE Min2(Max2(a, lo), hi)
FClampMin(a, lo) == IF IsNaN(a) THEN NaN ELSE Max2(a, lo)

\* complex numbers <<re, im>>
CZero == <<0, 0>>
CAdd(x, y) == <<FAdd(x[1], y[1]), FAdd(x[2], y[2])>>
CSub(x, y) == <<FSub(x[1], y[1]), FSub(x[2], y[2])>>
CConj(x) == <<x[1], FNeg(x[2])>>
CMul(x, y) ==
  <<FSub(FMul(x[1], y[1]), FMul(x[2], y[2])),
    FAdd(FMul(x[1], y[2]), FMul(x[2], y[1]))>>
CScale(r, x) == <<FMul(r, x[1]), FMul(r, x[2])>>
CDivR(x, r) == <<FDiv(x[1], r), FDiv(x[2], r)>>
CAbs2(x) == FAdd(FMul(x[1], x[1]), FMul(x[2], x[2]))
CAbs(x) == FSqrt(CAbs2(x))

\* the sum of the first n entries of s, added in index order
RECURSIVE FSumTo(_, _)
FSumTo(s, n) == IF n = 0 THEN 0 ELSE FAdd(FSumTo(s, n - 1), s[n])
FSum(s) == FSumTo(s, Len(s))
RECURSIVE CSumTo(_, _)
CSumTo(s, n) == IF n = 0 THEN CZero ELSE CAdd(CSumTo(s, n - 1), s[n])
CSum(s) == CSumTo(s, Len(s))

\* e with a * 2^(-e) in [1, 2), for a finite a > 0
RECURSIVE NormExp(_)
NormExp(a) ==
  IF a >= 2 * Scale THEN NormExp(a \div 2) + 1
  ELSE IF a < Scale THEN NormExp(2 * a) - 1
  ELSE 0

\* the first n binary digits of log2(m / 4096), for m / 4096 in [1, 2)
RECURSIVE FracBits(_, _)
FracBits(m, n) ==
  IF n = 0 THEN 0
  ELSE IF (m * m) \div 4096 >= 8192
       THEN 2 ^ (n - 1) + FracBits((m * m) \div 8192, n - 1)
       ELSE FracBits((m * m) \div 4096, n - 1)

\* log2 of a finite a > 0 with exponent e, in units of 1 / Scale
Log2(a, e) ==
  e * Scale + FracBits(IF e >= 0 THEN (a * 64) \div (2 ^ e) ELSE a * 64 * (2 ^ (0 - e)), 6)

\* torch.log: log2 times ln 2 (45426 / 65536)
FLog(a) ==
  IF IsNaN(a) \/ a < 0 THEN NaN
  ELSE IF a = 0 THEN NInf
  ELSE IF a = PInf THEN PInf
  ELSE (Log2(a, NormExp(a)) * 45426) \div 65536

\* 2^(y / Scale): 2^(floor) times a quadratic for the fractional part
Exp2(y) ==
  IF y \div Scale >= 18 THEN PInf
  ELSE IF y \div Scale < 0 - 13 THEN 0
  ELSE IF y \div Scale >= 0
       THEN ((4096 + ((y % Scale) * (2689 + (1407 * (y % Scale)) \div Scale)) \div Scale)
              * (2 ^ (y \div Scale))) \div 64
       ELSE ((4096 + ((y % Scale) * (2689 + (1407 * (y % Scale)) \div Scale)) \div Scale)
              \div (2 ^ (0 - (y \div Scale)))) \div 64

\* torch.exp: 2^(a * log2(e)), log2(e) = 94548 / 65536
FExp(a) ==
  IF IsNaN(a) THEN NaN
  ELSE IF a = PInf THEN PInf
  ELSE IF a = NInf THEN 0
  ELSE Exp2((a * 94548) \div 65536)

\* torch.max over the entries of s: a NaN entry makes the maximum NaN
RECURSIVE FMaxTo(_, _)
FMaxTo(s, n) ==
  IF n = 1 THEN s[1]
  ELSE IF IsNaN(s[n]) \/ IsNaN(FMaxTo(s, n - 1)) THEN NaN
  ELSE Max2(FMaxTo(s, n - 1), s[n])

\* ------------------------------------------------------ optional values
\* Python's None is the empty sequence, a given value v is <<v>>
None == <<>>
Some(v) == <<v>>
IsNone(o) == o = <<>>
Val(o) == o[1]

\* ------------------------------------------------------- tensor helpers
\* a tensor stored with every entry computed (the code's tensors are arrays,
\* not formulas): comparing it evaluates it once
Stored(x) == IF x = x THEN x ELSE x

\* shape of a tensor x[b][c][f][t]
SizeB(x) == Len(x)
SizeC(x) == Len(x[1])
SizeF(x) == Len(x[1][1])
SizeT(x) == Len(x[1][1][1])

\* make_seq_mask_like(lengths, like, time_dim=-1, valid_ones=False):
\* True at the frames of batch item b that are not below lengths[b]
SeqMaskInvalid(lengths, b, t) == ~(t - 1 < lengths[b])

\* x.masked_fill(length_mask, 0.0) on one time row of batch item b
MaskedFillRow(row, lengths, b, zero) ==
  [t \in 1..Len(row) |-> IF SeqMaskInvalid(lengths, b, t) THEN zero ELSE row[t]]

\* db2mag: 10 ^ (db / 20), tabulated at the thresholds the model configures
db2mag(db) ==
  CASE db = 0 - 200 -> 0
    [] db = 0 - 12 -> Scale \div 4
    [] db = 0 - 6 -> Scale \div 2
    [] db = 0 -> Scale
    [] db = 6 -> 2 * Scale

\* ------------------------------------------------------------ WPEFilter
\* torch.nn.functional.pad(x, (k, 0)) on one time row
PadLeft(row, k) == [t \in 1..(k + Len(row)) |-> IF t <= k THEN CZero ELSE row[t - k]]

\* row.unfold(-1, size, 1): every window of size consecutive entries
Unfold(row, size) == [j \in 1..(Len(row) - size + 1) |-> SubSeq(row, j, j + size - 1)]

\* tilde_X[:, :, :, :n_steps, :] on one row of windows
TrimSteps(wins, n_steps) == SubSeq(wins, 1, Min2(n_steps, Len(wins)))

\* convtensor with the padding on the right: window t holds the frames from
\* t + delay on, not those up to t - delay
convtensor_ahead(x, filter_length, delay, n_steps) ==
  Stored([b \in 1..SizeB(x) |-> [c \in 1..SizeC(x) |-> [f \in 1..SizeF(x) |->
    [t \in 1..SizeT(x) |-> [k \in 1..filter_length |->
      IF t + delay + (k - 1) <= SizeT(x) THEN x[b][c][f][t + delay + (k - 1)]
      ELSE CZero]]]]])

\* convtensor with the padding of the filter length only, the delay forgotten
convtensor_nodelay(x, filter_length, delay, n_steps) ==
  LET N == SizeT(x)
      steps == IF IsNone(n_steps) THEN N ELSE Val(n_steps)
  IN  Stored([b \in 1..SizeB(x) |-> [c \in 1..SizeC(x) |-> [f \in 1..SizeF(x) |->
        TrimSteps(Unfold(PadLeft(x[b][c][f], filter_length - 1), filter_length),
                  steps)]]])

\* convtensor with windows of one tap more than the filter length
convtensor_extratap(x, filter_length, delay, n_steps) ==
  LET N == SizeT(x)
      steps == IF IsNone(n_steps) THEN N ELSE Val(n_steps)
  IN  Stored([b \in 1..SizeB(x) |-> [c \in 1..SizeC(x) |-> [f \in 1..SizeF(x) |->
        TrimSteps(Unfold(PadLeft(x[b][c][f], filter_length + delay), filter_length + 1),
                  steps)]]])

\* WPEFilter.convtensor(x, filter_length, delay, n_steps): result[b][c][f][t][k]
convtensor(x, filter_length, delay, n_steps) ==
  LET N == SizeT(x)
      steps == IF IsNone(n_steps) THEN N ELSE Val(n_steps)
  IN  Stored([b \in 1..SizeB(x) |-> [c \in 1..SizeC(x) |-> [f \in 1..SizeF(x) |->
        TrimSteps(Unfold(PadLeft(x[b][c][f], filter_length - 1 + delay), filter_length),
                  steps)]]])

\* the weight from the power averaged over the subbands as well as the channels
TemporalWeight_allbands(power, eps) ==
  Stored([b \in 1..SizeB(power) |-> [f \in 1..SizeF(power) |-> [t \in 1..SizeT(power) |->
    FDiv(Scale,
         FAdd(FDiv(FSum([k \in 1..SizeC(power) * SizeF(power) |->
                      power[b][1 + ((k - 1) \div SizeF(power))][1 + ((k - 1) % SizeF(power))][t]]),
                   SizeC(power) * SizeF(power) * Scale),
              eps))]]])

\* the mean power plus eps itself as the weight, without the inversion
TemporalWeight_direct(power, eps) ==
  Stored([b \in 1..SizeB(power) |-> [f \in 1..SizeF(power) |-> [t \in 1..SizeT(power) |->
    FAdd(FDiv(FSum([c \in 1..SizeC(power) |-> power[b][c][f][t]]),
              SizeC(power) * Scale),
         eps)]]])

\* weight = 1 / (mean(power, dim=-3) + eps): result[b][f][t]
TemporalWeight(power, eps) ==
  Stored([b \in 1..SizeB(power) |-> [f \in 1..SizeF(power) |-> [t \in 1..SizeT(power) |->
    FDiv(Scale,
         FAdd(FDiv(FSum([c \in 1..SizeC(power) |-> power[b][c][f][t]]),
                   SizeC(power) * Scale),
              eps))]]])

\* estimate_correlations without the length masking of the weight
MaskWeight_skip(weight, input_length) == weight

\* the length masking of the weight in estimate_correlations
MaskWeight(weight, input_length) ==
  IF IsNone(input_length) THEN weight
  ELSE Stored([b \in 1..Len(weight) |-> [f \in 1..Len(weight[b]) |->
         MaskedFillRow(weight[b][f], Val(input_length), b, 0)]])

\* WPEFilter.estimate_correlations: Q[b][f][j][k][m][n] and R[b][f][j][k][m]
estimate_correlations(input, weight, tilde_input, input_length) ==
  LET w == MaskWeight(weight, input_length)
      B == SizeB(input)
      C == SizeC(input)
      F == SizeF(input)
      N == SizeT(input)
      L == Len(tilde_input[1][1][1][1])
  IN  [Q |-> Stored([b \in 1..B |-> [f \in 1..F |-> [j \in 1..C |-> [k \in 1..L |->
               [m \in 1..C |-> [n \in 1..L |->
                 CSum([i \in 1..N |->
                   CMul(CConj(tilde_input[b][j][f][i][k]),
                        CScale(w[b][f][i], tilde_input[b][m][f][i][n]))])]]]]]]),
       R |-> Stored([b \in 1..B |-> [f \in 1..F |-> [j \in 1..C |-> [k \in 1..L |->
               [m \in 1..C |->
                 CSum([i \in 1..N |->
                   CMul(CConj(tilde_input[b][j][f][i][k]),
                        CScale(w[b][f][i], input[b][m][f][i]))])]]]]]),
       weight |-> w]

\* Q.reshape(B, F, C * L, C * L) for one (b, f): row (j, k), column (m, n)
ReshapeQ(Qbf, C, L) ==
  Stored([r \in 1..(C * L) |-> [s \in 1..(C * L) |->
    Qbf[((r - 1) \div L) + 1][((r - 1) % L) + 1][((s - 1) \div L) + 1][((s - 1) % L) + 1]]])

\* R.reshape(B, F, C * L, C) for one (b, f)
ReshapeR(Rbf, C, L) ==
  Stored([r \in 1..(C * L) |-> [m \in 1..C |-> Rbf[((r - 1) \div L) + 1][((r - 1) % L) + 1][m]]])

\* torch.diagonal(Q).sum(-1).real
TraceReal(A) == FSum([r \in 1..Len(A) |-> A[r][r][1]])

\* Q + torch.diag_embed(diag_reg * ones): the same real amount on every diagonal entry
AddDiag(A, amount) ==
  Stored([r \in 1..Len(A) |-> [s \in 1..Len(A) |->
    IF r = s THEN CAdd(A[r][s], <<amount, 0>>) ELSE A[r][s]]])

\* the diagonal regularization of estimate_filter; a falsy diag_reg (None, 0) skips it
Regularize(A, diag_reg, eps) ==
  IF IsNone(diag_reg) \/ diag_reg = Some(0) THEN A
  ELSE AddDiag(A, FAdd(FMul(Val(diag_reg), TraceReal(A)), eps))

\* entry j of row i of the Cholesky factor, given the rows Lm above and the
\* entries row[1..j-1] before it; d is A[i][j] minus the products already known
CholEntry(Lm, row, i, j, d) ==
  IF j = i THEN <<FSqrt(d[1]), 0>> ELSE CDivR(d, Lm[j][j][1])

CholResidual(A, Lm, row, i, j) ==
  CSub(A[i][j],
       CSum([k \in 1..(j - 1) |->
         CMul(row[k], CConj(IF j = i THEN row[k] ELSE Lm[j][k]))]))

\* row i of the factor, <<>> when its pivot is not a positive finite number
RECURSIVE CholRow(_, _, _, _)
CholRowNext(A, Lm, row, i, e) ==
  IF Len(row) + 1 = i /\ ~(IsFinite(e[1]) /\ e[1] > 0) THEN <<>>
  ELSE CholRow(A, Lm, Append(row, e), i)

CholRow(A, Lm, row, i) ==
  IF Len(row) + 1 > i THEN row
  ELSE CholRowNext(A, Lm, row, i,
         CholEntry(Lm, row, i, Len(row) + 1, CholResidual(A, Lm, row, i, Len(row) + 1)))

\* torch.linalg.cholesky, row by row; <<>> when a pivot is not positive (the
\* factorization raises an error for a matrix that is not positive definite)
RECURSIVE CholRows(_, _)
CholRowsNext(A, Lm, new) == IF new = <<>> THEN <<>> ELSE CholRows(A, Append(Lm, new))

CholRows(A, Lm) ==
  IF Len(Lm) = Len(A) THEN Lm
  ELSE CholRowsNext(A, Lm, CholRow(A, Lm, <<>>, Len(Lm) + 1))

cholesky(A) == CholRows(A, <<>>)

\* torch.linalg.solve_triangular(QL, R, upper=False): forward substitution;
\* Y holds the rows 1..i-1 already solved
RECURSIVE SolveLower(_, _, _)
SolveLower(Lm, Rm, Y) ==
  IF Len(Y) = Len(Lm) THEN Y
  ELSE SolveLower(Lm, Rm, Append(Y,
         Stored([m \in 1..Len(Rm[1]) |->
           CDivR(CSub(Rm[Len(Y) + 1][m],
                      CSum([k \in 1..Len(Y) |-> CMul(Lm[Len(Y) + 1][k], Y[k][m])])),
                 Lm[Len(Y) + 1][Len(Y) + 1][1])])))

\* torch.linalg.solve_triangular(QL.conj().transpose(-2, -1), G, upper=True):
\* backward substitution; done holds the rows i+1..K already solved
RECURSIVE SolveUpper(_, _, _)
SolveUpper(Lm, Y, done) ==
  IF Len(done) = Len(Lm) THEN done
  ELSE SolveUpper(Lm, Y, <<
         Stored([m \in 1..Len(Y[1]) |->
           CDivR(CSub(Y[Len(Lm) - Len(done)][m],
                      CSum([k \in 1..Len(done) |->
                        CMul(CConj(Lm[Len(Lm) - Len(done) + k][Len(Lm) - Len(done)]),
                             done[k][m])])),
                 Lm[Len(Lm) - Len(done)][Len(Lm) - Len(done)][1])]) >> \o done)

\* G.reshape(B, F, C, L, C) and G.permute(0, 4, 1, 2, 3) for one (b, f): G[m][j][k]
UnpackG(Gm, C, L) ==
  Stored([m \in 1..C |-> [j \in 1..C |-> [k \in 1..L |-> Gm[(j - 1) * L + k][m]]]])

\* the two triangular solves with the factor QL; <<>> when the factorization failed
SolveBF(QL, Rm, C, L) ==
  IF QL = <<>> THEN <<>>
  ELSE UnpackG(SolveUpper(QL, SolveLower(QL, Rm, <<>>), <<>>), C, L)

\* WPEFilter.estimate_filter for one (b, f): G[m][j][k] (output channel m first),
\* or <<>> when the Cholesky factorization fails
EstimateFilterBF(Qbf, Rbf, C, L, diag_reg, eps) ==
  SolveBF(cholesky(Stored(Regularize(ReshapeQ(Qbf, C, L), diag_reg, eps))),
          ReshapeR(Rbf, C, L), C, L)

\* the filters of all (b, f) gathered: G[b][m][f][j][k]; ok is FALSE when a
\* factorization failed; Q is the local Q handed to the factorization
GatherFilter(Gbf, Qreg, B, C, F) ==
  [ok |-> \A b \in 1..B : \A f \in 1..F : Gbf[b][f] # <<>>,
   error |-> IF \A b \in 1..B : \A f \in 1..F : Gbf[b][f] # <<>> THEN ""
             ELSE "LinAlgError",
   Q |-> Qreg,
   G |-> Stored([b \in 1..B |-> [m \in 1..C |-> [f \in 1..F |->
           IF Gbf[b][f] = <<>> THEN <<>> ELSE Gbf[b][f][m]]]])]

\* WPEFilter.estimate_filter, with its assertion on the tap dimension of Q
estimate_filter(Q, R, filter_length, diag_reg, eps) ==
  IF Len(Q[1][1][1]) # filter_length
  THEN [ok |-> FALSE, error |-> "AssertionError", Q |-> <<>>, G |-> <<>>]
  ELSE GatherFilter(
    Stored([b \in 1..Len(Q) |-> [f \in 1..Len(Q[1]) |->
      EstimateFilterBF(Q[b][f], R[b][f], Len(Q[1][1]), filter_length, diag_reg, eps)]]),
    Stored([b \in 1..Len(Q) |-> [f \in 1..Len(Q[1]) |->
      Regularize(ReshapeQ(Q[b][f], Len(Q[1][1]), filter_length), diag_reg, eps)]]),
    Len(Q), Len(Q[1][1]), Len(Q[1]))

\* WPEFilter.apply_filter with tilde_input: output[b][m][f][i]
apply_filter(G, tilde_input) ==
  Stored([b \in 1..Len(tilde_input) |-> [m \in 1..Len(tilde_input[1]) |->
    [f \in 1..Len(tilde_input[1][1]) |-> [i \in 1..Len(tilde_input[1][1][1]) |->
      CSum([e \in 1..(Len(tilde_input[1]) * Len(tilde_input[1][1][1][1])) |->
        CMul(tilde_input[b][((e - 1) \div Len(tilde_input[1][1][1][1])) + 1][f][i]
                        [((e - 1) % Len(tilde_input[1][1][1][1])) + 1],
             G[b][m][f][((e - 1) \div Len(tilde_input[1][1][1][1])) + 1]
                       [((e - 1) % Len(tilde_input[1][1][1][1])) + 1])])]]]])

\* the masking of padded frames at the end of WPEFilter.forward
MaskFrames(x, input_length) ==
  IF IsNone(input_length) THEN x
  ELSE Stored([b \in 1..SizeB(x) |-> [c \in 1..SizeC(x) |-> [f \in 1..SizeF(x) |->
         MaskedFillRow(x[b][c][f], Val(input_length), b, CZero)]]])

\* the desired signal without the subtraction of the undesired component
Subtract_none(input, undesired_signal) == input

\* input - undesired_signal
Subtract(input, undesired_signal) ==
  Stored([b \in 1..SizeB(input) |-> [c \in 1..SizeC(input) |-> [f \in 1..SizeF(input) |->
    [t \in 1..SizeT(input) |-> CSub(input[b][c][f][t], undesired_signal[b][c][f][t])]]]])

\* the end of WPEFilter.forward, from the estimated filter est on
ForwardFromFilter(input, input_length, tilde_input, QR, est) ==
  [ok |-> est.ok, error |-> est.error, weight |-> QR.weight, tilde_input |-> tilde_input,
   Q |-> QR.Q, R |-> QR.R, Q_regularized |-> est.Q,
   G |-> IF est.ok THEN est.G ELSE <<>>,
   desired_signal |->
     IF est.ok
     THEN MaskFrames(Subtract(input, apply_filter(est.G, tilde_input)), input_length)
     ELSE <<>>,
   output_length |-> input_length]

\* WPEFilter.forward from the correlation matrices QR on
ForwardFromStats(flt, input, input_length, tilde_input, QR) ==
  ForwardFromFilter(input, input_length, tilde_input, QR,
    estimate_filter(QR.Q, QR.R, flt.filter_length, flt.diag_reg, flt.eps))

\* WPEFilter.forward from the convolution tensor on
ForwardFromTilde(flt, input, power, input_length, tilde_input) ==
  ForwardFromStats(flt, input, input_length, tilde_input,
    estimate_correlations(input, TemporalWeight(power, flt.eps), tilde_input, input_length))

\* WPEFilter.forward(input, power, input_length) of a filter with fields flt
WPEFilter_forward(flt, input, power, input_length) ==
  ForwardFromTilde(flt, input, power, input_length,
    convtensor(input, flt.filter_length, flt.prediction_delay, None))

\* --------------------------------------------------------------- inputs
\* entry number e of the input pattern seed, one of K choices (0..K-1)
GenIdx(seed, e, K) == ((seed + 1) * (e + 3) + (seed \div 2) * e * e + e \div 3) % K

\* linear position of entry (b, c, f, t) in a tensor with C channels, F subbands, N frames
Lin(b, c, f, t, C, F, N) == (((b - 1) * C + (c - 1)) * F + (f - 1)) * N + (t - 1)

CVals == << <<0, 0>>, <<Scale, 0>>, <<0, Scale>>, <<0 - Scale, Scale \div 2>> >>
RVals == << 0, Scale \div 8, Scale \div 2, Scale, 2 * Scale >>

\* a complex spectrogram of shape (B, C, F, N)
GenComplex(seed, B, C, F, N) ==
  Stored([b \in 1..B |-> [c \in 1..C |-> [f \in 1..F |-> [t \in 1..N |->
    CVals[1 + GenIdx(seed, Lin(b, c, f, t, C, F, N), Len(CVals))]]]]])

\* a non-negative real tensor of shape (B, C, F, N): a mask or a power
GenReal(seed, B, C, F, N) ==
  Stored([b \in 1..B |-> [c \in 1..C |-> [f \in 1..F |-> [t \in 1..N |->
    RVals[1 + GenIdx(seed + 1, Lin(b, c, f, t, C, F, N), Len(RVals))]]]]])

\* valid lengths of shape (B,), each in 0..N
GenLengths(seed, B, N) == [b \in 1..B |-> GenIdx(seed + 2, b, N + 1)]

\* the shapes (B, C, F, N) of the inputs: the largest shape, and with every
\* frame count the shapes that are larger than one along one axis only
Shapes ==
  {<<MaxB, MaxC, MaxF, MaxN>>}
    \cup {<<MaxB, 1, 1, N>> : N \in 1..MaxN}
    \cup {<<1, MaxC, 1, N>> : N \in 1..MaxN}
    \cup {<<1, 1, MaxF, N>> : N \in 1..MaxN}

\* ----------------------------------------------------- MaskEstimatorGSS
\* MaskEstimatorGSS.normalize(x, dim=-3): z[b][c][f][t]
normalize(x, eps) ==
  Stored([b \in 1..SizeB(x) |-> [c \in 1..SizeC(x) |-> [f \in 1..SizeF(x) |->
    [t \in 1..SizeT(x) |->
      CDivR(x[b][c][f][t],
            FAdd(FSqrt(FSum([k \in 1..SizeC(x) |-> CAbs2(x[b][k][f][t])])), eps))]]]])

\* the initial masks of forward: the activity clamped from below by eps, normalized
\* across the sources and expanded over the F subbands
InitGamma(activity, eps, F) ==
  Stored([b \in 1..Len(activity) |-> [m \in 1..Len(activity[1]) |-> [f \in 1..F |->
    [t \in 1..Len(activity[1][1]) |->
      FDiv(FClampMin(activity[b][m][t], eps),
           FSum([k \in 1..Len(activity[1]) |-> FClampMin(activity[b][k][t], eps)]))]]]])

\* torch.ones(B, num_outputs, F, T)
Ones(B, M, F, T) ==
  Stored([b \in 1..B |-> [m \in 1..M |-> [f \in 1..F |-> [t \in 1..T |-> Scale]]]])

\* MaskEstimatorGSS.update_weights: alpha[b][m][f], the mean of gamma over time
update_weights(gamma) ==
  Stored([b \in 1..SizeB(gamma) |-> [m \in 1..SizeC(gamma) |-> [f \in 1..SizeF(gamma) |->
    FDiv(FSum(gamma[b][m][f]), SizeT(gamma) * Scale)]]])

\* update_pdf up to the normalization across time: the shape matrix of (b, m, f),
\* num_inputs * sum_t scale z z^H / (sum_t gamma + eps), scale = gamma / (zH_invBM_z + eps)
ShapeMatrix(z, gamma, zH_invBM_z, eps, b, m, f) ==
  Stored([i \in 1..SizeC(z) |-> [j \in 1..SizeC(z) |->
    CDivR(CScale(SizeC(z) * Scale,
                 CSum([t \in 1..SizeT(z) |->
                   CMul(CScale(FDiv(gamma[b][m][f][t], FAdd(zH_invBM_z[b][m][f][t], eps)),
                               z[b][i][f][t]),
                        CConj(z[b][j][f][t]))])),
          FAdd(FSum(gamma[b][m][f]), eps))]])

\* (BM + BM.conj().transpose(-1, -2)) / 2
Hermitian(BM) ==
  Stored([i \in 1..Len(BM) |-> [j \in 1..Len(BM) |->
    CDivR(CAdd(BM[i][j], CConj(BM[j][i])), 2 * Scale)]])

\* the eigenvector (conj(c), lambda - a) of [[a, conj(c)], [c, d]] for the
\* eigenvalue lambda, c # 0, divided by its norm
EigVec(a, c, lambda) ==
  <<CDivR(CConj(c), FSqrt(FAdd(CAbs2(c), FMul(FSub(lambda, a), FSub(lambda, a))))),
    CDivR(<<FSub(lambda, a), 0>>,
          FSqrt(FAdd(CAbs2(c), FMul(FSub(lambda, a), FSub(lambda, a)))))>>

\* eigenvalues mid - rad <= mid + rad and eigenvectors (the columns of Q) of the
\* Hermitian matrix [[a, conj(c)], [c, d]]
Eigh2(a, d, c, mid, rad) ==
  IF CAbs2(c) = 0
  THEN [L |-> IF a <= d THEN <<a, d>> ELSE <<d, a>>,
        Q |-> IF a <= d THEN << <<<<Scale, 0>>, CZero>>, <<CZero, <<Scale, 0>> >> >>
                        ELSE << <<CZero, <<Scale, 0>> >>, <<<<Scale, 0>>, CZero>> >>,
        finite |-> TRUE]
  ELSE [L |-> <<FSub(mid, rad), FAdd(mid, rad)>>,
        Q |-> << <<EigVec(a, c, FSub(mid, rad))[1], EigVec(a, c, FAdd(mid, rad))[1]>>,
                 <<EigVec(a, c, FSub(mid, rad))[2], EigVec(a, c, FAdd(mid, rad))[2]>> >>,
        finite |-> TRUE]

\* whether every entry of the matrix A is a finite number
FiniteMatrix(A) ==
  \A i \in 1..Len(A) : \A j \in 1..Len(A) : IsFinite(A[i][j][1]) /\ IsFinite(A[i][j][2])

\* torch.linalg.eigh(A) for a matrix of one or two rows, from its lower triangle:
\* eigenvalues L in ascending order, eigenvectors Q[k][j] (component k of vector j);
\* a matrix with an entry that is not finite has no decomposition (finite: FALSE)
eigh(A) ==
  IF ~FiniteMatrix(A)
  THEN [L |-> [j \in 1..Len(A) |-> NaN],
        Q |-> [k \in 1..Len(A) |-> [j \in 1..Len(A) |-> <<NaN, NaN>>]], finite |-> FALSE]
  ELSE IF Len(A) = 1
  THEN [L |-> <<A[1][1][1]>>, Q |-> << << <<Scale, 0>> >> >>, finite |-> TRUE]
  ELSE Eigh2(A[1][1][1], A[2][2][1], A[2][1],
             FDiv(FAdd(A[1][1][1], A[2][2][1]), 2 * Scale),
             FSqrt(FAdd(FMul(FDiv(FSub(A[1][1][1], A[2][2][1]), 2 * Scale),
                             FDiv(FSub(A[1][1][1], A[2][2][1]), 2 * Scale)),
                        CAbs2(A[2][1]))))

\* the eigenvalues clamped from below by eps, divided by (their maximum + eps),
\* plus eps
NormEigenvalues(e, eps) ==
  [L |-> [j \in 1..Len(e.L) |->
            FAdd(FDiv(FClampMin(e.L[j], eps),
                      FAdd(FMaxTo([i \in 1..Len(e.L) |-> FClampMin(e.L[i], eps)], Len(e.L)),
                           eps)),
                 eps)],
   Q |-> e.Q, finite |-> e.finite]

\* the decompositions of the shape matrices of all (b, m, f)
EigAll(z, gamma, zH_invBM_z, eps) ==
  Stored([b \in 1..SizeB(gamma) |-> [m \in 1..SizeC(gamma) |-> [f \in 1..SizeF(gamma) |->
    NormEigenvalues(eigh(Hermitian(ShapeMatrix(z, gamma, zH_invBM_z, eps, b, m, f))), eps)]]])

\* the new energy term: sum_j |(1 / sqrt(L_j)) (Q^H z)_j|^2 + eps
Energy(z, eig, eps) ==
  Stored([b \in 1..Len(eig) |-> [m \in 1..Len(eig[1]) |-> [f \in 1..Len(eig[1][1]) |->
    [t \in 1..SizeT(z) |->
      FAdd(FSum([j \in 1..SizeC(z) |->
             FMul(CAbs(CScale(FDiv(Scale, FSqrt(eig[b][m][f].L[j])),
                              CSum([k \in 1..SizeC(z) |->
                                CMul(CConj(eig[b][m][f].Q[k][j]), z[b][k][f][t])]))),
                  CAbs(CScale(FDiv(Scale, FSqrt(eig[b][m][f].L[j])),
                              CSum([k \in 1..SizeC(z) |->
                                CMul(CConj(eig[b][m][f].Q[k][j]), z[b][k][f][t])]))))]),
           eps)]]]])

\* log_pdf = -num_inputs * log(zH_invBM_z) - log_detBM, log_detBM = sum_j log(L_j)
LogPdf(energy, eig, num_inputs) ==
  [log_pdf |->
     Stored([b \in 1..Len(eig) |-> [m \in 1..Len(eig[1]) |-> [f \in 1..Len(eig[1][1]) |->
       [t \in 1..Len(energy[1][1][1]) |->
         FSub(FMul(0 - num_inputs * Scale, FLog(energy[b][m][f][t])),
              FSum([j \in 1..num_inputs |-> FLog(eig[b][m][f].L[j])]))]]]]),
   zH_invBM_z |-> energy,
   finite |-> \A b \in 1..Len(eig) : \A m \in 1..Len(eig[1]) :
                \A f \in 1..Len(eig[1][1]) : eig[b][m][f].finite]

\* update_pdf from the decompositions on
PdfFromEig(z, eig, eps) == LogPdf(Energy(z, eig, eps), eig, SizeC(z))

\* MaskEstimatorGSS.update_pdf: log_pdf[b][m][f][t] and the new zH_invBM_z[b][m][f][t]
update_pdf(z, gamma, zH_invBM_z, eps) ==
  PdfFromEig(z, EigAll(z, gamma, zH_invBM_z, eps), eps)

\* the weighted PDF with the activity clamped from below as in the initial masks
WeightedPdf_clamped(alpha, activity, log_pdf) ==
  Stored([b \in 1..SizeB(log_pdf) |-> [m \in 1..SizeC(log_pdf) |->
    [f \in 1..SizeF(log_pdf) |-> [t \in 1..SizeT(log_pdf) |->
      FMul(FMul(alpha[b][m][f],
                FExp(FSub(log_pdf[b][m][f][t],
                          FMaxTo([k \in 1..SizeC(log_pdf) |-> log_pdf[b][k][f][t]],
                                 SizeC(log_pdf))))),
           FClampMin(activity[b][m][t], Scale \div 16))]]]])

\* the weighted PDF without the activity of the sources
WeightedPdf_noactivity(alpha, activity, log_pdf) ==
  Stored([b \in 1..SizeB(log_pdf) |-> [m \in 1..SizeC(log_pdf) |->
    [f \in 1..SizeF(log_pdf) |-> [t \in 1..SizeT(log_pdf) |->
      FMul(alpha[b][m][f],
           FExp(FSub(log_pdf[b][m][f][t],
                     FMaxTo([k \in 1..SizeC(log_pdf) |-> log_pdf[b][k][f][t]],
                            SizeC(log_pdf)))))]]]])

\* alpha * exp(log_pdf - max over the sources) * activity
WeightedPdf(alpha, activity, log_pdf) ==
  Stored([b \in 1..SizeB(log_pdf) |-> [m \in 1..SizeC(log_pdf) |->
    [f \in 1..SizeF(log_pdf) |-> [t \in 1..SizeT(log_pdf) |->
      FMul(FMul(alpha[b][m][f],
                FExp(FSub(log_pdf[b][m][f][t],
                          FMaxTo([k \in 1..SizeC(log_pdf) |-> log_pdf[b][k][f][t]],
                                 SizeC(log_pdf))))),
           activity[b][m][t])]]]])

\* gamma / (torch.sum(gamma, dim=-3) + eps)
NormalizeMasks(gamma, eps) ==
  Stored([b \in 1..SizeB(gamma) |-> [m \in 1..SizeC(gamma) |-> [f \in 1..SizeF(gamma) |->
    [t \in 1..SizeT(gamma) |->
      FDiv(gamma[b][m][f][t],
           FAdd(FSum([k \in 1..SizeC(gamma) |-> gamma[b][k][f][t]]), eps))]]]])

\* MaskEstimatorGSS.update_masks
update_masks(alpha, activity, log_pdf, eps) ==
  NormalizeMasks(WeightedPdf(alpha, activity, log_pdf), eps)

\* ---------------------------------------------------------------- state
VARIABLES
  conv,    \* the last call of the class method WPEFilter.convtensor
  wpe,     \* fields of a WPEFilter instance
  fcall,   \* the last call of WPEFilter.forward on wpe
  dwpe,    \* fields of a MaskBasedDereverbWPE instance (filter: its WPEFilter)
  dcall,   \* the locals of the call of MaskBasedDereverbWPE.forward on dwpe
  gss,     \* fields of a MaskEstimatorGSS instance
  gcall,   \* the locals of the call of MaskEstimatorGSS.forward on gss
  bf,      \* fields of a MaskBasedBeamformer instance
  bcall,   \* the locals of the call of MaskBasedBeamformer.forward on bf
  mrc,     \* fields of a MaskReferenceChannel instance
  rcall,   \* the last call of MaskReferenceChannel.forward on mrc
  s2f,     \* fields of a SpectrogramToMultichannelFeatures instance
  scall    \* the last call of SpectrogramToMultichannelFeatures.forward on s2f

vars == <<conv, wpe, fcall, dwpe, dcall, gss, gcall, bf, bcall, mrc, rcall, s2f, scall>>

Idle == [pc |-> "idle"]

\* ---------------------------------------------------- WPEFilter.convtensor
ConvInit ==
  /\ conv = Idle
  /\ wpe = Idle /\ fcall = Idle /\ dwpe = Idle /\ dcall = Idle /\ gss = Idle /\ gcall = Idle /\ bf = Idle /\ bcall = Idle
  /\ mrc = Idle /\ rcall = Idle /\ s2f = Idle /\ scall = Idle

ConvCall ==
  \E sh \in Shapes, seed \in 0..MaxSeed, L \in 1..MaxL, d \in 0..MaxDelay,
     n_steps \in {None} \cup {Some(n) : n \in 1..(MaxN + MaxDelay + 1)} :
    LET x == GenComplex(seed, sh[1], sh[2], sh[3], sh[4])
    IN  /\ conv.pc = "idle"
        /\ conv' = [pc |-> "done", x |-> x, filter_length |-> L, delay |-> d,
                    n_steps |-> n_steps, tilde_X |-> convtensor(x, L, d, n_steps)]
        /\ UNCHANGED <<wpe, fcall, dwpe, dcall, gss, gcall, bf, bcall, mrc, rcall, s2f, scall>>

SpecConv == ConvInit /\ [][ConvCall]_vars

\* C1: with n_steps left at its default, convtensor returns a tensor of shape
\* (B, C, F, N, L) whose entry [b, c, f, t, k] (t and k counted from 0) is
\* x[b, c, f, t - d - (L - 1 - k)] when that time index is not negative and 0
\* otherwise, so that no window holds a sample later than frame t - d.
\* Below t and k count from 1, which leaves t - d - (L - k) as the source frame.
C1_CausalWindow ==
  (conv.pc = "done" /\ IsNone(conv.n_steps)) =>
    /\ Len(conv.tilde_X) = SizeB(conv.x)
    /\ \A b \in 1..SizeB(conv.x) :
         /\ Len(conv.tilde_X[b]) = SizeC(conv.x)
         /\ \A c \in 1..SizeC(conv.x) :
              /\ Len(conv.tilde_X[b][c]) = SizeF(conv.x)
              /\ \A f \in 1..SizeF(conv.x) :
                   /\ Len(conv.tilde_X[b][c][f]) = SizeT(conv.x)
                   /\ \A t \in 1..SizeT(conv.x) :
                        /\ Len(conv.tilde_X[b][c][f][t]) = conv.filter_length
                        /\ \A k \in 1..conv.filter_length :
                             conv.tilde_X[b][c][f][t][k] =
                               IF t - conv.delay - (conv.filter_length - k) >= 1
                               THEN conv.x[b][c][f][t - conv.delay - (conv.filter_length - k)]
                               ELSE CZero

\* a call with a delay, two taps and three frames whose first sample is not zero:
\* the window of the last frame holds both a padded zero's successor and a sample
C1_Witness ==
  /\ conv.pc = "done" /\ IsNone(conv.n_steps)
  /\ conv.delay = MaxDelay /\ conv.filter_length = MaxL /\ SizeT(conv.x) = MaxN
  /\ conv.x[1][1][1][1] # CZero
  /\ conv.tilde_X[1][1][1][MaxN][MaxL] = conv.x[1][1][1][MaxN - MaxDelay]
  /\ conv.tilde_X[1][1][1][1][MaxL] = CZero

\* ------------------------------------------------------ WPEFilter.forward
\* WPEFilter.__init__: any filter_length, prediction_delay, diag_reg and eps are stored
WPEFilterConfigs ==
  [filter_length : 1..MaxL, prediction_delay : 0..MaxDelay,
   diag_reg : {None, Some(0), Some(Scale \div 16)}, eps : {1}]

FilterInit ==
  /\ wpe \in WPEFilterConfigs /\ fcall = Idle
  /\ conv = Idle /\ dwpe = Idle /\ dcall = Idle /\ gss = Idle /\ gcall = Idle /\ bf = Idle /\ bcall = Idle
  /\ mrc = Idle /\ rcall = Idle /\ s2f = Idle /\ scall = Idle

\* the call record once forward has returned res, or raised in the factorization
FilterCallEnd(input, power, input_length, res) ==
  [pc |-> IF res.ok THEN "done" ELSE "error", input |-> input,
   power |-> power, input_length |-> input_length, res |-> res]

\* one call of forward; arg: whether input_length is given, and the predicted
\* power: varied over the entries, or uniform and as small (0) or as large
\* (128) as the model gets
FilterCall ==
  \E sh \in Shapes, seed \in 0..MaxSeed,
     arg \in {<<TRUE, "varied">>, <<FALSE, "varied">>, <<FALSE, "tiny">>, <<FALSE, "huge">>} :
    LET input == GenComplex(seed, sh[1], sh[2], sh[3], sh[4])
        power == IF arg[2] = "varied" THEN GenReal(seed, sh[1], sh[2], sh[3], sh[4])
                 ELSE Stored([b \in 1..sh[1] |-> [c \in 1..sh[2] |-> [f \in 1..sh[3] |->
                        [t \in 1..sh[4] |-> IF arg[2] = "tiny" THEN 0 ELSE 128 * Scale]]]])
        input_length == IF arg[1] THEN Some(GenLengths(seed, sh[1], sh[4])) ELSE None
    IN  /\ fcall.pc = "idle"
        /\ fcall' = FilterCallEnd(input, power, input_length,
                                  WPEFilter_forward(wpe, input, power, input_length))
        /\ UNCHANGED <<conv, wpe, dwpe, dcall, gss, gcall, bf, bcall, mrc, rcall, s2f, scall>>

SpecFilter == FilterInit /\ [][FilterCall]_vars

\* the number of frames of batch item b that are below its valid length
ValidFrames(lengths, b, N) == Min2(lengths[b], N)

\* C2: when input_length is given to WPEFilter.forward, every frame t >=
\* input_length[b] has weight zero before Q and R are summed, so that Q and R are
\* the sums over the valid frames alone; the returned desired signal is zero at
\* every such frame for all channels and subbands, and the returned length is
\* input_length unchanged.
C2_LengthMasking ==
  (fcall.pc \in {"done", "error"} /\ ~IsNone(fcall.input_length)) =>
    \A b \in 1..SizeB(fcall.input) : \A f \in 1..SizeF(fcall.input) :
      /\ \A t \in 1..SizeT(fcall.input) :
           t - 1 >= Val(fcall.input_length)[b] =>
             /\ fcall.res.weight[b][f][t] = 0
             /\ fcall.pc = "done" =>
                  \A c \in 1..SizeC(fcall.input) :
                    fcall.res.desired_signal[b][c][f][t] = CZero
      /\ \A j \in 1..SizeC(fcall.input) : \A k \in 1..wpe.filter_length :
           \A m \in 1..SizeC(fcall.input) :
             /\ fcall.res.R[b][f][j][k][m] =
                  CSum([i \in 1..ValidFrames(Val(fcall.input_length), b, SizeT(fcall.input)) |->
                    CMul(CConj(fcall.res.tilde_input[b][j][f][i][k]),
                         CScale(TemporalWeight(fcall.power, wpe.eps)[b][f][i],
                                fcall.input[b][m][f][i]))])
             /\ \A n \in 1..wpe.filter_length :
                  fcall.res.Q[b][f][j][k][m][n] =
                    CSum([i \in 1..ValidFrames(Val(fcall.input_length), b, SizeT(fcall.input)) |->
                      CMul(CConj(fcall.res.tilde_input[b][j][f][i][k]),
                           CScale(TemporalWeight(fcall.power, wpe.eps)[b][f][i],
                                  fcall.res.tilde_input[b][m][f][i][n]))])
      /\ fcall.res.output_length = fcall.input_length

\* a returned call with a padded frame that holds a sample and has power below
\* infinity, so that only the masking gives it weight zero
C2_Witness ==
  /\ fcall.pc = "done" /\ ~IsNone(fcall.input_length)
  /\ \E b \in 1..SizeB(fcall.input) : \E t \in 1..SizeT(fcall.input) :
       /\ t - 1 >= Val(fcall.input_length)[b]
       /\ fcall.input[b][1][1][t] # CZero
       /\ TemporalWeight(fcall.power, wpe.eps)[b][1][t] # 0
       /\ fcall.res.weight[b][1][t] = 0
       /\ fcall.res.desired_signal[b][1][1][t] = CZero

\* ------------------------------------------------- MaskBasedDereverbWPE
\* MaskBasedDereverbWPE.__init__; the constructor does not compare the thresholds
\* mask_min_db and mask_max_db (db)
DereverbConfigs ==
  {[filter |-> flt, num_iterations |-> n, mask_min |-> db2mag(db[1]),
    mask_max |-> db2mag(db[2]), dtype |-> "cdouble"] :
     flt \in {[filter_length |-> MaxL, prediction_delay |-> MaxDelay,
               diag_reg |-> Some(Scale \div 16), eps |-> 1],
              [filter_length |-> 1, prediction_delay |-> 0,
               diag_reg |-> Some(0), eps |-> 1]},
     n \in 0..MaxIter, db \in {<<0 - 12, 0 - 6>>, <<0, 0 - 12>>}}

\* the shapes (B, C, F, N) of the inputs of the iterative components
NarrowShapes == {<<1, MaxC, 1, MaxN>>, <<MaxB, 1, MaxF, 1>>}

IsComplexDtype(dt) == dt \in {"cfloat", "cdouble"}

\* tensor.to(dtype) on the entries of a tensor of dtype from
ToDtype(x, from, dtype) ==
  IF IsComplexDtype(from) = IsComplexDtype(dtype) THEN x
  ELSE Stored([b \in 1..SizeB(x) |-> [c \in 1..SizeC(x) |-> [f \in 1..SizeF(x) |->
         [t \in 1..SizeT(x) |->
           IF IsComplexDtype(dtype) THEN <<x[b][c][f][t], 0>> ELSE x[b][c][f][t][1]]]]])

\* torch.abs(output): result[b][c][f][t]
Magnitude(output) ==
  Stored([b \in 1..SizeB(output) |-> [c \in 1..SizeC(output) |-> [f \in 1..SizeF(output) |->
    [t \in 1..SizeT(output) |-> CAbs(output[b][c][f][t])]]]])

\* torch.clamp(mask, min=mask_min, max=mask_max): max wins when min > max
ClampMask(mask, mask_min, mask_max) ==
  Stored([b \in 1..SizeB(mask) |-> [c \in 1..SizeC(mask) |-> [f \in 1..SizeF(mask) |->
    [t \in 1..SizeT(mask) |-> FClamp(mask[b][c][f][t], mask_min, mask_max)]]]])

\* whether mask * magnitude broadcasts along the channels: equal counts or a
\* count of one
Broadcastable(mask, magnitude) ==
  SizeC(mask) = SizeC(magnitude) \/ SizeC(mask) = 1 \/ SizeC(magnitude) = 1

\* mask * magnitude, a single channel of either broadcast over the channels of
\* the other
MaskMagnitude(mask, magnitude) ==
  Stored([b \in 1..SizeB(magnitude) |->
    [c \in 1..Max2(SizeC(mask), SizeC(magnitude)) |->
      [f \in 1..SizeF(magnitude) |-> [t \in 1..SizeT(magnitude) |->
        FMul(mask[b][IF SizeC(mask) = 1 THEN 1 ELSE c][f][t],
             magnitude[b][IF SizeC(magnitude) = 1 THEN 1 ELSE c][f][t])]]]])

\* magnitude ** 2
Power(magnitude) ==
  Stored([b \in 1..SizeB(magnitude) |-> [c \in 1..SizeC(magnitude) |->
    [f \in 1..SizeF(magnitude) |-> [t \in 1..SizeT(magnitude) |->
      FMul(magnitude[b][c][f][t], magnitude[b][c][f][t])]]]])

DereverbInit ==
  /\ dwpe \in DereverbConfigs /\ dcall = Idle
  /\ conv = Idle /\ wpe = Idle /\ fcall = Idle /\ gss = Idle /\ gcall = Idle /\ bf = Idle /\ bcall = Idle
  /\ mrc = Idle /\ rcall = Idle /\ s2f = Idle /\ scall = Idle

\* forward up to the loop: io_dtype, the conversion to self.dtype, the assertion;
\* arg: whether input_length is given, the channel count of the mask (0: no
\* mask) and the dtype of the input
DereverbCall ==
  \E sh \in NarrowShapes, seed \in 0..MaxSeed,
     arg \in (BOOLEAN \X {0, 1, MaxC} \X {"cdouble"})
                \cup {<<FALSE, 0, "double">>, <<TRUE, 1, "double">>,
                      <<FALSE, MaxC + 1, "cdouble">>} :
    LET withLength == arg[1]
        maskC == arg[2]
        io_dtype == arg[3]
        input == IF IsComplexDtype(io_dtype)
                 THEN GenComplex(seed, sh[1], sh[2], sh[3], sh[4])
                 ELSE GenReal(seed + 3, sh[1], sh[2], sh[3], sh[4])
        output == ToDtype(input, io_dtype, dwpe.dtype)
    IN  /\ dcall.pc = "idle"
        /\ dcall' = [pc |-> IF IsComplexDtype(dwpe.dtype) THEN "loop" ELSE "error",
                     error |-> IF IsComplexDtype(dwpe.dtype) THEN "" ELSE "AssertionError",
                     input |-> input,
                     input_length |-> IF withLength
                                      THEN Some(GenLengths(seed, sh[1], sh[4])) ELSE None,
                     mask_arg |-> IF maskC = 0 THEN None
                                  ELSE Some(GenReal(seed, sh[1], maskC, sh[3], sh[4])),
                     mask |-> IF maskC = 0 THEN None
                              ELSE Some(GenReal(seed, sh[1], maskC, sh[3], sh[4])),
                     io_dtype |-> io_dtype, output |-> output, i |-> 0,
                     output_length |-> <<>>, calls |-> <<>>, result |-> <<>>]
        /\ UNCHANGED <<conv, wpe, fcall, dwpe, gss, gcall, bf, bcall, mrc, rcall, s2f, scall>>

\* the locals after the filter call of one loop body returned res (or raised)
IterEnd(d, mask, power, res) ==
  IF res.ok
  THEN [d EXCEPT !.mask = mask, !.output = res.desired_signal,
                 !.output_length = <<res.output_length>>, !.i = d.i + 1,
                 !.calls = Append(d.calls, [input |-> d.output, power |-> power,
                                            input_length |-> d.input_length, res |-> res])]
  ELSE [d EXCEPT !.pc = "error", !.error = res.error, !.mask = mask,
                 !.calls = Append(d.calls, [input |-> d.output, power |-> power,
                                            input_length |-> d.input_length, res |-> res])]

\* the filter call of one loop body, with the power of this iteration
IterFilter(self, d, mask, power) ==
  IterEnd(d, mask, power, WPEFilter_forward(self.filter, d.output, power, d.input_length))

\* the mask of this iteration: clamped in the first one, when a mask is given
IterMask(self, d) ==
  IF d.i = 0 /\ ~IsNone(d.mask)
  THEN Some(ClampMask(Val(d.mask), self.mask_min, self.mask_max))
  ELSE d.mask

\* the mask multiplied into the magnitude in every iteration
IterMagnitude_always(d, mask, magnitude) ==
  IF ~IsNone(d.mask) THEN MaskMagnitude(Val(mask), magnitude) ELSE magnitude

\* the magnitude of this iteration, masked in the first one when a mask is given
IterMagnitude(d, mask, magnitude) ==
  IF d.i = 0 /\ ~IsNone(d.mask) THEN MaskMagnitude(Val(mask), magnitude) ELSE magnitude

\* one loop body with the (possibly clamped) mask of this iteration; the product
\* of the first iteration raises when the channel counts do not broadcast
IterBody(self, d, mask) ==
  IF d.i = 0 /\ ~IsNone(d.mask) /\ ~Broadcastable(Val(mask), d.output)
  THEN [d EXCEPT !.pc = "error", !.error = "RuntimeError", !.mask = mask]
  ELSE IterFilter(self, d, mask, Power(IterMagnitude(d, mask, Magnitude(d.output))))

\* one execution of the loop body (i is the number of bodies already executed)
DereverbIter ==
  /\ dcall.pc = "loop"
  /\ dcall.i < dwpe.num_iterations
  /\ dcall' = IterBody(dwpe, dcall, IterMask(dwpe, dcall))
  /\ UNCHANGED <<conv, wpe, fcall, dwpe, gss, gcall, bf, bcall, mrc, rcall, s2f, scall>>

\* return output.to(io_dtype), output_length; output_length is unbound (<<>>)
\* when the loop body never ran
DereverbReturn ==
  /\ dcall.pc = "loop"
  /\ ~(dcall.i < dwpe.num_iterations)
  /\ dcall' = IF dcall.output_length = <<>>
              THEN [dcall EXCEPT !.pc = "error", !.error = "UnboundLocalError"]
              ELSE [dcall EXCEPT !.pc = "done",
                      !.result = <<ToDtype(dcall.output, dwpe.dtype, dcall.io_dtype),
                                   dcall.output_length[1]>>]
  /\ UNCHANGED <<conv, wpe, fcall, dwpe, gss, gcall, bf, bcall, mrc, rcall, s2f, scall>>

DereverbNext == DereverbCall \/ DereverbIter \/ DereverbReturn
SpecDereverb == DereverbInit /\ [][DereverbNext]_vars

\* the power of an estimate alone: the squared magnitude of each entry
SquaredMagnitude(x) ==
  [b \in 1..SizeB(x) |-> [c \in 1..SizeC(x) |-> [f \in 1..SizeF(x) |->
    [t \in 1..SizeT(x) |-> FMul(CAbs(x[b][c][f][t]), CAbs(x[b][c][f][t]))]]]]

\* the power of an estimate weighted by a mask clamped to [lo, hi]
MaskedSquaredMagnitude(x, mask, lo, hi) ==
  [b \in 1..SizeB(x) |-> [c \in 1..Max2(SizeC(x), SizeC(mask)) |-> [f \in 1..SizeF(x) |->
    [t \in 1..SizeT(x) |->
      FMul(FMul(FClamp(mask[b][IF SizeC(mask) = 1 THEN 1 ELSE c][f][t], lo, hi),
                CAbs(x[b][IF SizeC(x) = 1 THEN 1 ELSE c][f][t])),
           FMul(FClamp(mask[b][IF SizeC(mask) = 1 THEN 1 ELSE c][f][t], lo, hi),
                CAbs(x[b][IF SizeC(x) = 1 THEN 1 ELSE c][f][t])))]]]]

\* C3: in MaskBasedDereverbWPE.forward with num_iterations >= 1 the mask given by
\* the caller is clamped to [mask_min, mask_max] and multiplied into the magnitude
\* in the first iteration only; in every later iteration the power handed to the
\* filter is the squared magnitude of the current estimate alone, and the input
\* of iteration i + 1 is the desired signal returned by iteration i (the input of
\* the call is used in iteration 0 only).  dcall.calls lists the filter calls.
C3_MaskFirstIterationOnly ==
  \A n \in 1..(IF dcall.pc = "idle" THEN 0 ELSE Len(dcall.calls)) :
    /\ dcall.calls[n].input =
         IF n = 1 THEN ToDtype(dcall.input, dcall.io_dtype, dwpe.dtype)
         ELSE dcall.calls[n - 1].res.desired_signal
    /\ dcall.calls[n].power =
         IF n = 1 /\ ~IsNone(dcall.mask_arg)
         THEN MaskedSquaredMagnitude(dcall.calls[n].input, Val(dcall.mask_arg),
                                     dwpe.mask_min, dwpe.mask_max)
         ELSE SquaredMagnitude(dcall.calls[n].input)

\* two iterations with a mask that the clamping changes and that changes the
\* power of the first iteration, and a second estimate that is not the input
C3_Witness ==
  /\ dcall.pc = "done" /\ Len(dcall.calls) >= 2 /\ ~IsNone(dcall.mask_arg)
  /\ dcall.mask # dcall.mask_arg
  /\ dcall.calls[1].power # SquaredMagnitude(dcall.calls[1].input)
  /\ dcall.calls[2].input # dcall.calls[1].input
  /\ dcall.calls[2].power #
       MaskedSquaredMagnitude(dcall.calls[2].input, Val(dcall.mask_arg),
                              dwpe.mask_min, dwpe.mask_max)

\* C8: for every num_iterations >= 0 and every valid input, forward executes the
\* body of its loop exactly num_iterations times and then returns its output
\* normally (a call whose factorization fails, or whose mask does not broadcast
\* over the channels of the input, is not one on a valid input).
C8_FixedIterations ==
  /\ dcall.pc = "error" => dcall.error \in {"LinAlgError", "RuntimeError"}
  /\ dcall.pc = "done" =>
       dcall.i = dwpe.num_iterations /\ Len(dcall.calls) = dwpe.num_iterations

\* ----------------------------------------------- MaskEstimatorGSS.forward
MaxM == 3

\* MaskEstimatorGSS.__init__: num_iterations and eps are stored as given
GSSConfigs ==
  [num_iterations : 0..MaxIter, eps : {1, Scale \div 16}, dtype : {"cdouble"}]

\* the shapes (B, num_inputs, F, T) of the input: eigh is modelled for one and
\* two input channels
GSSShapes == {<<1, 2, 1, MaxN>>, <<MaxB, 1, MaxF, 1>>, <<1, 1, 1, 1>>}

\* the entries of an activity: the first three lie in [0, 1]
AVals == << 0, Scale, Scale \div 2, Scale \div 16, 0 - 3 * (Scale \div 16), 0 - (Scale \div 8) >>

\* an activity of shape (B, M, T) whose last `silence` frames are zero for
\* every source; K is the number of entries of AVals in use
GenActivity(seed, K, silence, B, M, T) ==
  [b \in 1..B |-> [m \in 1..M |-> [t \in 1..T |->
    IF t > T - silence THEN 0
    ELSE AVals[1 + GenIdx(seed, ((b - 1) * M + (m - 1)) * T + (t - 1), K)]]]]

GSSInit ==
  /\ gss \in GSSConfigs /\ gcall = Idle
  /\ conv = Idle /\ wpe = Idle /\ fcall = Idle /\ dwpe = Idle /\ dcall = Idle /\ bf = Idle /\ bcall = Idle
  /\ mrc = Idle /\ rcall = Idle /\ s2f = Idle /\ scall = Idle

\* the assertions with `num_outputs > 0` in place of `num_outputs > 1`
ActivityAccepted_one(input, activity) ==
  /\ Len(activity) = SizeB(input) /\ Len(activity[1][1]) = SizeT(input)
  /\ Len(activity[1]) > 0

\* the two assertions on the shape of the activity
ActivityAccepted(input, activity) ==
  /\ Len(activity) = SizeB(input) /\ Len(activity[1][1]) = SizeT(input)
  /\ Len(activity[1]) > 1

\* the locals of forward when the EM loop is reached
GSSLocals(self, input, activity, z, gamma) ==
  [pc |-> "loop", error |-> "", input |-> input, activity |-> activity, z |-> z,
   gamma0 |-> gamma, gamma |-> gamma,
   zH_invBM_z |-> Ones(SizeB(input), Len(activity[1]), SizeF(input), SizeT(input)),
   it |-> 0, steps |-> <<>>, result |-> <<>>]

\* forward up to the loop: the assertions, the conversion to self.dtype, the
\* directional statistics, the initial masks and the initial energy term
GSSEnter(self, input, activity) ==
  IF ~ActivityAccepted(input, activity)
  THEN [pc |-> "error", error |-> "AssertionError", input |-> input,
        activity |-> activity, it |-> 0, steps |-> <<>>]
  ELSE GSSLocals(self, input, activity, normalize(input, self.eps),
                 InitGamma(activity, self.eps, SizeF(input)))

\* forward called with an input and an activity; arg: the excess of the activity's
\* batch size and of its frame count over the input's, and whether the input is real
GSSCall ==
  \E sh \in GSSShapes, seed \in 0..MaxSeed, M \in 1..MaxM, wild \in BOOLEAN,
     silence \in 0..1,
     arg \in {<<0, 0, FALSE>>, <<1, 0, FALSE>>, <<0, 1, FALSE>>, <<0, 0, TRUE>>} :
    /\ gcall.pc = "idle"
    /\ gcall' = GSSEnter(gss,
         IF arg[3] THEN ToDtype(GenReal(seed, sh[1], sh[2], sh[3], sh[4]), "double", gss.dtype)
         ELSE GenComplex(seed, sh[1], sh[2], sh[3], sh[4]),
         GenActivity(seed, IF wild THEN Len(AVals) ELSE 3, silence,
                     sh[1] + arg[1], M, sh[4] + arg[2]))
    /\ UNCHANGED <<conv, wpe, fcall, dwpe, dcall, gss, bf, bcall, mrc, rcall, s2f, scall>>

\* the locals after the three updates of one iteration
EMEnd(g, alpha, pdf, gamma) ==
  [g EXCEPT !.gamma = gamma, !.zH_invBM_z = pdf.zH_invBM_z, !.it = g.it + 1,
            !.steps = Append(g.steps, [alpha |-> alpha, log_pdf |-> pdf.log_pdf,
                                       zH_invBM_z |-> pdf.zH_invBM_z, gamma |-> gamma])]

\* the mask update of one iteration, or the error of eigh on a matrix that is
\* not finite when the build's eigh raises one
EMMasks(self, g, alpha, pdf, raises) ==
  IF raises /\ ~pdf.finite
  THEN [g EXCEPT !.pc = "error", !.error = "LinAlgError"]
  ELSE EMEnd(g, alpha, pdf, update_masks(alpha, g.activity, pdf.log_pdf, self.eps))

\* an iteration whose PDF update reads the initial energy term, not the previous one
EMStep_stale(self, g, raises) ==
  EMMasks(self, g, update_weights(g.gamma),
          update_pdf(g.z, g.gamma,
                     Ones(SizeB(g.gamma), SizeC(g.gamma), SizeF(g.gamma), SizeT(g.gamma)),
                     self.eps), raises)

\* one iteration of the loop: update_weights, update_pdf, update_masks
EMStep(self, g, raises) ==
  EMMasks(self, g, update_weights(g.gamma),
          update_pdf(g.z, g.gamma, g.zH_invBM_z, self.eps), raises)

\* one iteration of the EM loop; eigh on a matrix with an entry that is not
\* finite either raises an error or returns NaN, depending on the build
GSSIter ==
  \E raises \in BOOLEAN :
    /\ gcall.pc = "loop"
    /\ gcall.it < gss.num_iterations
    /\ gcall' = EMStep(gss, gcall, raises)
    /\ UNCHANGED <<conv, wpe, fcall, dwpe, dcall, gss, bf, bcall, mrc, rcall, s2f, scall>>

\* torch.all in place of torch.any
AnyNaN_all(gamma) ==
  \A b \in 1..SizeB(gamma) : \A m \in 1..SizeC(gamma) : \A f \in 1..SizeF(gamma) :
    \A t \in 1..SizeT(gamma) : IsNaN(gamma[b][m][f][t])

\* torch.any(torch.isnan(gamma))
AnyNaN(gamma) ==
  \E b \in 1..SizeB(gamma) : \E m \in 1..SizeC(gamma) : \E f \in 1..SizeF(gamma) :
    \E t \in 1..SizeT(gamma) : IsNaN(gamma[b][m][f][t])

\* after the loop: the check for NaN and the return
GSSReturn ==
  /\ gcall.pc = "loop"
  /\ ~(gcall.it < gss.num_iterations)
  /\ gcall' = IF AnyNaN(gcall.gamma)
              THEN [gcall EXCEPT !.pc = "error", !.error = "RuntimeError"]
              ELSE [gcall EXCEPT !.pc = "done", !.result = gcall.gamma]
  /\ UNCHANGED <<conv, wpe, fcall, dwpe, dcall, gss, bf, bcall, mrc, rcall, s2f, scall>>

GSSNext == GSSCall \/ GSSIter \/ GSSReturn
SpecGSS == GSSInit /\ [][GSSNext]_vars

\* whether every entry of the activity lies in [0, 1]
InUnit(activity) ==
  \A b \in 1..Len(activity) : \A m \in 1..Len(activity[1]) :
    \A t \in 1..Len(activity[1][1]) :
      activity[b][m][t] >= 0 /\ activity[b][m][t] <= Scale

\* the entries of x[b][m][f][t] summed over the sources m
SourceSum(x, b, f, t) == FSum([m \in 1..SizeC(x) |-> x[b][m][f][t]])

\* the EM iterations run so far
Steps == IF gcall.pc = "idle" THEN <<>> ELSE gcall.steps

\* C4 as stated: after every call of update_masks, for an activity with values in
\* [0, 1] (frames where every source has activity 0 included), the masks summed
\* over the M sources equal 1 within eps at every (b, f, t).  Each of the M
\* quotients of the number format is rounded down by less than one unit, which the
\* bound allows for.
C4_SumIsOne ==
  \A n \in 1..Len(Steps) :
    InUnit(gcall.activity) =>
      \A b \in 1..SizeB(gcall.input) : \A f \in 1..SizeF(gcall.input) :
        \A t \in 1..SizeT(gcall.input) :
          Abs(Scale - SourceSum(Steps[n].gamma, b, f, t)) <= gss.eps + SizeC(Steps[n].gamma)

\* the sum sigma of the masks of one (b, f, t) is S / (S + eps), rounded down once
\* per source, for the sum S of the weighted PDF over the M sources
IsNormalizedBy(sigma, S, eps, M) ==
  /\ sigma >= 0 /\ sigma <= Scale
  /\ sigma * (S + eps) <= S * Scale
  /\ S * Scale < (sigma + M) * (S + eps)

\* C4, amended: after every call of update_masks, for an activity with values in
\* [0, 1], the masks summed over the M sources equal S / (S + eps) at every
\* (b, f, t), S being the sum over the sources of alpha * exp(log_pdf - max) *
\* activity: the sum lies in [0, 1], falls short of 1 by eps / (S + eps), and is 0
\* at the frames where every source has activity 0.
C4_SumIsNormalized ==
  \A n \in 1..Len(Steps) :
    InUnit(gcall.activity) =>
      \A b \in 1..SizeB(gcall.input) : \A f \in 1..SizeF(gcall.input) :
        \A t \in 1..SizeT(gcall.input) :
          /\ IsNormalizedBy(SourceSum(Steps[n].gamma, b, f, t),
                            SourceSum(WeightedPdf(Steps[n].alpha, gcall.activity,
                                                  Steps[n].log_pdf), b, f, t),
                            gss.eps, SizeC(Steps[n].gamma))
          /\ (\A m \in 1..SizeC(Steps[n].gamma) : gcall.activity[b][m][t] = 0)
               => SourceSum(Steps[n].gamma, b, f, t) = 0

\* an iteration on an activity in [0, 1] after which the masks of a frame without
\* any active source sum to 0 and the masks of another frame sum to more than 0
\* but to less than 1 - eps
C4_Witness ==
  /\ Len(Steps) >= 1 /\ InUnit(gcall.activity)
  /\ \E t \in 1..SizeT(gcall.input) :
       /\ \A m \in 1..SizeC(gcall.gamma) : gcall.activity[1][m][t] = 0
       /\ SourceSum(Steps[1].gamma, 1, 1, t) = 0
  /\ \E t \in 1..SizeT(gcall.input) :
       /\ SourceSum(Steps[1].gamma, 1, 1, t) > 0
       /\ SourceSum(Steps[1].gamma, 1, 1, t) < Scale - gss.eps - SizeC(gcall.gamma)

\* the masks and the energy term that iteration n reads
GammaBefore(n) == IF n = 1 THEN gcall.gamma0 ELSE Steps[n - 1].gamma
EnergyBefore(n) ==
  IF n = 1
  THEN [b \in 1..SizeB(gcall.gamma0) |-> [m \in 1..SizeC(gcall.gamma0) |->
         [f \in 1..SizeF(gcall.gamma0) |-> [t \in 1..SizeT(gcall.gamma0) |-> Scale]]]]
  ELSE Steps[n - 1].zH_invBM_z

\* C5: every EM iteration runs the weight update, the PDF update and the mask
\* update in this order: alpha is the mean over time of the gamma of the previous
\* iteration (of the normalized activity in the first), the log-PDF and the new
\* energy term come from z, that same gamma and the previous energy term (all
\* ones in the first iteration), and the new gamma comes from the new alpha, the
\* new log-PDF and the activity.
C5_StepOrder ==
  \A n \in 1..Len(Steps) :
    /\ n = 1 =>
         \A b \in 1..SizeB(gcall.gamma0) : \A m \in 1..SizeC(gcall.gamma0) :
           \A f \in 1..SizeF(gcall.gamma0) : \A t \in 1..SizeT(gcall.gamma0) :
             gcall.gamma0[b][m][f][t] =
               FDiv(Max2(gcall.activity[b][m][t], gss.eps),
                    FSum([k \in 1..SizeC(gcall.gamma0) |->
                           Max2(gcall.activity[b][k][t], gss.eps)]))
    /\ \A b \in 1..SizeB(gcall.gamma0) : \A m \in 1..SizeC(gcall.gamma0) :
         \A f \in 1..SizeF(gcall.gamma0) :
           Steps[n].alpha[b][m][f] =
             FDiv(FSum(GammaBefore(n)[b][m][f]), SizeT(gcall.gamma0) * Scale)
    /\ Steps[n].log_pdf = update_pdf(gcall.z, GammaBefore(n), EnergyBefore(n), gss.eps).log_pdf
    /\ Steps[n].zH_invBM_z =
         update_pdf(gcall.z, GammaBefore(n), EnergyBefore(n), gss.eps).zH_invBM_z
    /\ Steps[n].gamma =
         update_masks(Steps[n].alpha, gcall.activity, Steps[n].log_pdf, gss.eps)

\* two iterations in which every value handed on has changed: the masks, the
\* weights and the energy term of the second differ from those of the first
C5_Witness ==
  /\ Len(Steps) >= 2
  /\ Steps[1].gamma # gcall.gamma0
  /\ Steps[1].zH_invBM_z # EnergyBefore(1)
  /\ Steps[2].alpha # Steps[1].alpha
  /\ Steps[2].log_pdf # Steps[1].log_pdf
  /\ Steps[2].log_pdf # update_pdf(gcall.z, Steps[1].gamma, EnergyBefore(1), gss.eps).log_pdf

\* whether some entry of gamma is NaN, +inf or -inf
AnyNonFinite(gamma) ==
  \E b \in 1..SizeB(gamma) : \E m \in 1..SizeC(gamma) : \E f \in 1..SizeF(gamma) :
    \E t \in 1..SizeT(gamma) : ~IsFinite(gamma[b][m][f][t])

\* C6 as stated: forward never returns a mask tensor with an entry that is not
\* finite (NaN, +inf or -inf).
C6_ReturnsFinite ==
  gcall.pc = "done" => ~AnyNonFinite(gcall.result)

\* C6, amended: forward never returns a mask tensor with a NaN entry: the check
\* for NaN runs once, after the last EM iteration, and the call fails with a
\* RuntimeError exactly when the final gamma holds a NaN; an infinite entry
\* without a NaN is returned.
C6_ReturnsNoNaN ==
  /\ gcall.pc = "done" =>
       /\ gcall.it = gss.num_iterations
       /\ gcall.result = gcall.gamma
       /\ \A b \in 1..SizeB(gcall.result) : \A m \in 1..SizeC(gcall.result) :
            \A f \in 1..SizeF(gcall.result) : \A t \in 1..SizeT(gcall.result) :
              gcall.result[b][m][f][t] # NaN
  /\ (gcall.pc = "error" /\ gcall.error = "RuntimeError") =>
       /\ gcall.it = gss.num_iterations
       /\ \E b \in 1..SizeB(gcall.gamma) : \E m \in 1..SizeC(gcall.gamma) :
            \E f \in 1..SizeF(gcall.gamma) : \E t \in 1..SizeT(gcall.gamma) :
              gcall.gamma[b][m][f][t] = NaN

\* a call that fails after its last iteration on a final gamma with a NaN entry
\* beside an entry that is not NaN
C6_Witness ==
  /\ gcall.pc = "error" /\ gcall.error = "RuntimeError" /\ gcall.it >= 1
  /\ \E m \in 1..SizeC(gcall.gamma) : gcall.gamma[1][m][1][1] = NaN
  /\ \E m \in 1..SizeC(gcall.gamma) : gcall.gamma[1][m][1][1] # NaN

\* C7 as stated: forward fails with an input error, before any EM iteration, if
\* the channel counts (of the input and of the activity) mismatch or if the
\* number of sources M is less than 2; a call that passes the checks starts the
\* EM loop.
C7_ChannelCounts ==
  gcall.pc # "idle" =>
    IF SizeC(gcall.input) # Len(gcall.activity[1]) \/ Len(gcall.activity[1]) < 2
    THEN gcall.pc = "error" /\ gcall.error = "AssertionError" /\ gcall.steps = <<>>
    ELSE gcall.error # "AssertionError"

\* C7, amended: forward fails with an AssertionError, before any EM iteration, if
\* the batch size or the frame count of the activity differs from the input's, or
\* if the number of sources M is less than 2 (the channel count of the input need
\* not equal M); a call that passes the checks starts the EM loop.
C7_ActivityShape ==
  gcall.pc # "idle" =>
    IF \/ Len(gcall.activity) # SizeB(gcall.input)
       \/ Len(gcall.activity[1][1]) # SizeT(gcall.input)
       \/ Len(gcall.activity[1]) < 2
    THEN gcall.pc = "error" /\ gcall.error = "AssertionError" /\ gcall.steps = <<>>
    ELSE /\ gcall.error # "AssertionError"
         /\ gcall.pc = "loop" => gcall.it <= gss.num_iterations
         /\ gcall.pc \in {"loop", "done", "error"}

\* a call rejected for the frame count of an activity with two sources, on an
\* input with two channels
C7_Witness ==
  /\ gcall.pc = "error" /\ gcall.error = "AssertionError"
  /\ Len(gcall.activity[1]) = 2 /\ SizeC(gcall.input) = 2
  /\ Len(gcall.activity[1][1]) # SizeT(gcall.input)

\* ------------------------------------------------------ MaskBasedBeamformer
\* MaskBasedBeamformer.__init__ with thresholds that pass its assertions,
\* mask_min_db < mask_max_db (db) and postmask_min_db <= postmask_max_db (pdb);
\* num_channels is the channel count of the output of self.filter
BeamformerConfigs ==
  {[mask_min |-> db2mag(db[1]), mask_max |-> db2mag(db[2]),
    postmask_min |-> db2mag(pdb[1]), postmask_max |-> db2mag(pdb[2]),
    num_channels |-> K] :
     db \in {<<0 - 200, 0>>, <<0 - 12, 0 - 6>>}, pdb \in {<<0, 0>>, <<0 - 6, 0>>},
     K \in 1..MaxC}

\* self.filter(input, mask_s, mask_n): an output of num_channels channels that
\* depends on the input and on both masks: channel k is the input channel k
\* (wrapped around) scaled by 1 + mask_s - mask_n
SpatialFilter(input, mask_s, mask_n, num_channels) ==
  Stored([b \in 1..SizeB(input) |-> [k \in 1..num_channels |-> [f \in 1..SizeF(input) |->
    [t \in 1..SizeT(input) |->
      CScale(FAdd(Scale, FSub(mask_s[b][f][t], mask_n[b][f][t])),
             input[b][((k - 1) % SizeC(input)) + 1][f][t])]]]])

\* mask[:, m, ...]: result[b][f][t]
SelectMask(mask, m) ==
  [b \in 1..SizeB(mask) |-> [f \in 1..SizeF(mask) |-> [t \in 1..SizeT(mask) |->
    mask[b][m][f][t]]]]

\* the complement of mask m used for any number of masks
UndesiredMask_complement(mask, mask_undesired, m) ==
  IF ~IsNone(mask_undesired) THEN SelectMask(Val(mask_undesired), m)
  ELSE [b \in 1..SizeB(mask) |-> [f \in 1..SizeF(mask) |-> [t \in 1..SizeT(mask) |->
         FSub(Scale, mask[b][m][f][t])]]]

\* the undesired mask of mask m before thresholding
UndesiredMask(mask, mask_undesired, m) ==
  IF ~IsNone(mask_undesired) THEN SelectMask(Val(mask_undesired), m)
  ELSE IF SizeC(mask) = 1
  THEN [b \in 1..SizeB(mask) |-> [f \in 1..SizeF(mask) |-> [t \in 1..SizeT(mask) |->
         FSub(Scale, mask[b][m][f][t])]]]
  ELSE [b \in 1..SizeB(mask) |-> [f \in 1..SizeF(mask) |-> [t \in 1..SizeT(mask) |->
         FSub(FSum([k \in 1..SizeC(mask) |-> mask[b][k][f][t]]), mask[b][m][f][t])]]]

\* torch.clamp(x, min=lo, max=hi) followed, when input_length is given, by
\* masked_fill(length_mask, 0.0), on a tensor x[b][f][t]
ThresholdMask(x, lo, hi, input_length) ==
  Stored([b \in 1..Len(x) |-> [f \in 1..Len(x[1]) |-> [t \in 1..Len(x[1][1]) |->
    IF ~IsNone(input_length) /\ SeqMaskInvalid(Val(input_length), b, t) THEN 0
    ELSE FClamp(x[b][f][t], lo, hi)]]])

\* output_m * postmask_m.unsqueeze(1) when postmask_min < postmask_max
Postmask(self, output_m, mask, m) ==
  IF self.postmask_min < self.postmask_max
  THEN Stored([b \in 1..SizeB(output_m) |-> [k \in 1..SizeC(output_m) |->
         [f \in 1..SizeF(output_m) |-> [t \in 1..SizeT(output_m) |->
           CScale(FClamp(mask[b][m][f][t], self.postmask_min, self.postmask_max),
                  output_m[b][k][f][t])]]]])
  ELSE output_m

\* the outputs concatenated with the last one first
Concatenate_reversed(output) ==
  Stored([b \in 1..SizeB(output[1]) |->
    [c \in 1..(Len(output) * SizeC(output[1])) |->
      output[Len(output) - ((c - 1) \div SizeC(output[1]))][b]
            [((c - 1) % SizeC(output[1])) + 1]]])

\* torch.concatenate(output, axis=1) of a list of tensors of K channels each
Concatenate(output) ==
  Stored([b \in 1..SizeB(output[1]) |->
    [c \in 1..(Len(output) * SizeC(output[1])) |->
      output[((c - 1) \div SizeC(output[1])) + 1][b][((c - 1) % SizeC(output[1])) + 1]]])

BeamformerInit ==
  /\ bf \in BeamformerConfigs /\ bcall = Idle
  /\ conv = Idle /\ wpe = Idle /\ fcall = Idle /\ dwpe = Idle /\ dcall = Idle
  /\ gss = Idle /\ gcall = Idle
  /\ mrc = Idle /\ rcall = Idle /\ s2f = Idle /\ scall = Idle

\* forward up to the loop; arg: whether input_length is given and whether
\* mask_undesired is not given, has one channel or has all M channels
BeamformerCall ==
  \E sh \in NarrowShapes, seed \in 0..MaxSeed, M \in 1..MaxM,
     arg \in BOOLEAN \X {"none", "one", "all"} :
    /\ bcall.pc = "idle"
    /\ bcall' = [pc |-> "loop", error |-> "",
                 input |-> GenComplex(seed, sh[1], sh[2], sh[3], sh[4]),
                 mask |-> GenReal(seed, sh[1], M, sh[3], sh[4]),
                 mask_undesired |->
                   IF arg[2] = "none" THEN None
                   ELSE Some(GenReal(seed + 1, sh[1], IF arg[2] = "one" THEN 1 ELSE M,
                                     sh[3], sh[4])),
                 input_length |-> IF arg[1] THEN Some(GenLengths(seed, sh[1], sh[4]))
                                  ELSE None,
                 m |-> 0, output |-> <<>>, calls |-> <<>>, result |-> <<>>]
    /\ UNCHANGED <<conv, wpe, fcall, dwpe, dcall, gss, gcall, bf, mrc, rcall, s2f, scall>>

\* the locals after the filter call of mask m returned ret
MaskEnd(self, c, mask_d, mask_u, ret) ==
  [c EXCEPT !.m = c.m + 1,
            !.output = Append(c.output, Postmask(self, ret, c.mask, c.m + 1)),
            !.calls = Append(c.calls, [m |-> c.m, input |-> c.input, mask_s |-> mask_d,
                                       mask_n |-> mask_u, ret |-> ret])]

\* the filter call of one loop body with the thresholded masks
MaskFilter(self, c, mask_d, mask_u) ==
  MaskEnd(self, c, mask_d, mask_u, SpatialFilter(c.input, mask_d, mask_u, self.num_channels))

\* one loop body: the masks of mask number c.m (counted from 0), the filter call,
\* the postmask; mask_undesired[:, m] fails when mask_undesired has no channel m
MaskBody(self, c) ==
  IF ~IsNone(c.mask_undesired) /\ c.m + 1 > SizeC(Val(c.mask_undesired))
  THEN [c EXCEPT !.pc = "error", !.error = "IndexError"]
  ELSE MaskFilter(self, c,
         ThresholdMask(SelectMask(c.mask, c.m + 1), self.mask_min, self.mask_max,
                       c.input_length),
         ThresholdMask(UndesiredMask(c.mask, c.mask_undesired, c.m + 1),
                       self.mask_min, self.mask_max, c.input_length))

BeamformerIter ==
  /\ bcall.pc = "loop"
  /\ bcall.m < SizeC(bcall.mask)
  /\ bcall' = MaskBody(bf, bcall)
  /\ UNCHANGED <<conv, wpe, fcall, dwpe, dcall, gss, gcall, bf, mrc, rcall, s2f, scall>>

\* after the loop: the concatenation, the masking of the padded frames, the return
BeamformerReturn ==
  /\ bcall.pc = "loop"
  /\ ~(bcall.m < SizeC(bcall.mask))
  /\ bcall' = [bcall EXCEPT !.pc = "done",
                 !.result = <<MaskFrames(Concatenate(bcall.output), bcall.input_length),
                              bcall.input_length>>]
  /\ UNCHANGED <<conv, wpe, fcall, dwpe, dcall, gss, gcall, bf, mrc, rcall, s2f, scall>>

BeamformerNext == BeamformerCall \/ BeamformerIter \/ BeamformerReturn
SpecBF == BeamformerInit /\ [][BeamformerNext]_vars

\* the filter calls made so far
FilterCalls == IF bcall.pc = "idle" THEN <<>> ELSE bcall.calls

\* whether frame t of batch item b lies beyond the valid length, when one is given
Padded(input_length, b, t) == ~IsNone(input_length) /\ t - 1 >= Val(input_length)[b]

\* the undesired mask of C9 at (b, f, t) for mask n (counted from 1)
ExpectedUndesired(n, b, f, t) ==
  IF ~IsNone(bcall.mask_undesired) THEN Val(bcall.mask_undesired)[b][n][f][t]
  ELSE IF SizeC(bcall.mask) = 1 THEN FSub(Scale, bcall.mask[b][n][f][t])
  ELSE FSub(FSum([k \in 1..SizeC(bcall.mask) |-> bcall.mask[b][k][f][t]]),
            bcall.mask[b][n][f][t])

\* C9: for each mask index m the desired mask handed to the spatial filter is
\* mask[m] and the undesired mask is mask_undesired[m] whenever mask_undesired is
\* given, otherwise 1 - mask[m] when M = 1, otherwise the sum of all M masks minus
\* mask[m]; both are clamped to [mask_min, mask_max] and, when input_length is
\* given, zero at the frames beyond the valid length.
C9_MaskSelection ==
  \A n \in 1..Len(FilterCalls) :
    /\ FilterCalls[n].input = bcall.input
    /\ \A b \in 1..SizeB(bcall.mask) : \A f \in 1..SizeF(bcall.mask) :
         \A t \in 1..SizeT(bcall.mask) :
           /\ FilterCalls[n].mask_s[b][f][t] =
                IF Padded(bcall.input_length, b, t) THEN 0
                ELSE Min2(Max2(bcall.mask[b][n][f][t], bf.mask_min), bf.mask_max)
           /\ FilterCalls[n].mask_n[b][f][t] =
                IF Padded(bcall.input_length, b, t) THEN 0
                ELSE Min2(Max2(ExpectedUndesired(n, b, f, t), bf.mask_min), bf.mask_max)

\* a call with two masks or more, without mask_undesired and with a padded
\* frame: the sum of the other masks exceeds mask_max at a valid frame and is
\* clamped, the complement of the mask would differ, and the masks are zero at the
\* padded frame
C9_Witness ==
  /\ Len(FilterCalls) >= 2 /\ IsNone(bcall.mask_undesired) /\ ~IsNone(bcall.input_length)
  /\ \E t \in 1..SizeT(bcall.mask) :
       /\ ~Padded(bcall.input_length, 1, t)
       /\ ExpectedUndesired(2, 1, 1, t) > bf.mask_max
       /\ FilterCalls[2].mask_n[1][1][t] = bf.mask_max
  /\ \E t \in 1..SizeT(bcall.mask) :
       /\ ~Padded(bcall.input_length, 1, t)
       /\ FilterCalls[1].mask_n[1][1][t] # FClamp(FSub(Scale, bcall.mask[1][1][1][t]),
                                                  bf.mask_min, bf.mask_max)
  /\ \E t \in 1..SizeT(bcall.mask) :
       /\ Padded(bcall.input_length, 1, t)
       /\ bcall.mask[1][1][1][t] > 0
       /\ FilterCalls[1].mask_s[1][1][t] = 0

\* the output of the filter call for mask n at (b, k, f, t), post-masked when
\* postmask_min < postmask_max
ExpectedOutput(n, b, k, f, t) ==
  IF bf.postmask_min < bf.postmask_max
  THEN CScale(Min2(Max2(bcall.mask[b][n][f][t], bf.postmask_min), bf.postmask_max),
              FilterCalls[n].ret[b][k][f][t])
  ELSE FilterCalls[n].ret[b][k][f][t]

\* C10: forward calls the spatial filter once per mask, in ascending mask index,
\* and concatenates the results in that order: with K channels per filter call
\* the output has M * K channels, and channels m * K .. (m + 1) * K - 1 are the
\* (post-masked, if configured) filter output for mask m; when input_length is
\* given every output channel is zero at the frames beyond the valid length.
C10_Concatenation ==
  /\ \A n \in 1..Len(FilterCalls) : FilterCalls[n].m = n - 1
  /\ bcall.pc = "done" =>
       /\ Len(FilterCalls) = SizeC(bcall.mask)
       /\ bcall.result[2] = bcall.input_length
       /\ \A b \in 1..SizeB(bcall.input) :
            /\ Len(bcall.result[1][b]) = SizeC(bcall.mask) * bf.num_channels
            /\ \A n \in 1..SizeC(bcall.mask) : \A k \in 1..bf.num_channels :
                 \A f \in 1..SizeF(bcall.input) : \A t \in 1..SizeT(bcall.input) :
                   bcall.result[1][b][(n - 1) * bf.num_channels + k][f][t] =
                     IF Padded(bcall.input_length, b, t) THEN CZero
                     ELSE ExpectedOutput(n, b, k, f, t)

\* a returned call with two masks or more, two channels per filter call and a
\* postmask: the outputs of the first two filter calls differ at a valid frame,
\* and the filter output is not zero at a padded frame
C10_Witness ==
  /\ bcall.pc = "done" /\ Len(FilterCalls) >= 2 /\ bf.num_channels = 2
  /\ bf.postmask_min < bf.postmask_max
  /\ \E t \in 1..SizeT(bcall.input) :
       /\ ~Padded(bcall.input_length, 1, t)
       /\ ExpectedOutput(1, 1, 1, 1, t) # ExpectedOutput(2, 1, 1, 1, t)
       /\ ExpectedOutput(1, 1, 1, 1, t) # FilterCalls[1].ret[1][1][1][t]
  /\ \E t \in 1..SizeT(bcall.input) :
       /\ Padded(bcall.input_length, 1, t)
       /\ FilterCalls[1].ret[1][1][1][t] # CZero
       /\ bcall.result[1][1][1][1][t] = CZero

\* ------------------------------------------- MaskBasedBeamformer.__init__
\* MaskBasedBeamformer.__init__(filter_type, filter_beta, filter_rank, ...,
\* mask_min_db, mask_max_db, postmask_min_db, postmask_max_db): the instance, or
\* the exception raised; warnings counts the calls of logging.warning; filter
\* holds the beta and rank that ParametricMultichannelWienerFilter is built with
Beamformer_init(filter_type, filter_beta, filter_rank, db, pdb) ==
  IF filter_type \notin {"pmwf", "mvdr_souden"}
  THEN [pc |-> "error", error |-> "ValueError", warnings |-> 0,
        args |-> <<filter_type, filter_beta, filter_rank, db, pdb>>]
  ELSE IF filter_type = "mvdr_souden" /\ filter_beta # 0
  THEN IF db[1] < db[2] /\ pdb[1] <= pdb[2]
       THEN [pc |-> "built", error |-> "", warnings |-> 1,
             args |-> <<filter_type, filter_beta, filter_rank, db, pdb>>,
             filter_type |-> filter_type, filter |-> [beta |-> 0, rank |-> "one"],
             mask_min |-> db2mag(db[1]), mask_max |-> db2mag(db[2]),
             postmask_min |-> db2mag(pdb[1]), postmask_max |-> db2mag(pdb[2])]
       ELSE [pc |-> "error", error |-> "AssertionError", warnings |-> 1,
             args |-> <<filter_type, filter_beta, filter_rank, db, pdb>>]
  ELSE IF db[1] < db[2] /\ pdb[1] <= pdb[2]
       THEN [pc |-> "built", error |-> "", warnings |-> 0,
             args |-> <<filter_type, filter_beta, filter_rank, db, pdb>>,
             filter_type |-> filter_type,
             filter |-> [beta |-> filter_beta, rank |-> filter_rank],
             mask_min |-> db2mag(db[1]), mask_max |-> db2mag(db[2]),
             postmask_min |-> db2mag(pdb[1]), postmask_max |-> db2mag(pdb[2])]
       ELSE [pc |-> "error", error |-> "AssertionError", warnings |-> 0,
             args |-> <<filter_type, filter_beta, filter_rank, db, pdb>>]

\* before the constructor is called
BeamformerNew ==
  /\ bf = [pc |-> "new"] /\ bcall = Idle
  /\ conv = Idle /\ wpe = Idle /\ fcall = Idle /\ dwpe = Idle /\ dcall = Idle
  /\ gss = Idle /\ gcall = Idle
  /\ mrc = Idle /\ rcall = Idle /\ s2f = Idle /\ scall = Idle

\* one call of the constructor
BeamformerConstruct ==
  \E filter_type \in {"pmwf", "mvdr_souden", "mvdr"},
     filter_beta \in {0, Scale \div 2, Scale}, filter_rank \in {"one", "full"},
     db \in {<<0 - 200, 0>>, <<0 - 12, 0 - 6>>, <<0, 0>>},
     pdb \in {<<0, 0>>, <<0 - 6, 0>>, <<0, 0 - 6>>} :
    /\ bf.pc = "new"
    /\ bf' = Beamformer_init(filter_type, filter_beta, filter_rank, db, pdb)
    /\ UNCHANGED <<conv, wpe, fcall, dwpe, dcall, gss, gcall, bcall, mrc, rcall, s2f, scall>>

SpecBFInit == BeamformerNew /\ [][BeamformerConstruct]_vars

\* C11: constructing with filter_type 'mvdr_souden' and a non-zero beta or a
\* rank other than 'one' raises no exception, builds the spatial filter with
\* beta = 0 and rank = 'one', and logs a warning whenever a correction was made
C11_SoudenCorrected ==
  (/\ bf.pc # "new"
   /\ bf.args[1] = "mvdr_souden"
   /\ bf.args[2] # 0 \/ bf.args[3] # "one"
   /\ bf.args[4][1] < bf.args[4][2] /\ bf.args[5][1] <= bf.args[5][2])
  => /\ bf.pc = "built"
     /\ bf.filter.beta = 0 /\ bf.filter.rank = "one"
     /\ bf.warnings >= 1

\* C12: for every configuration that the constructors accept and every input
\* mask, each mask value right after the clamping step lies within
\* [mask_min, mask_max]; here for MaskBasedDereverbWPE, whose first loop body
\* clamps the mask and keeps the clamped mask in its local `mask`
C12_MaskWithinThresholds ==
  (dcall.pc # "idle" /\ Len(dcall.calls) >= 1 /\ ~IsNone(dcall.mask_arg)) =>
    \A b \in 1..SizeB(Val(dcall.mask)), c \in 1..SizeC(Val(dcall.mask)),
       f \in 1..SizeF(Val(dcall.mask)), t \in 1..SizeT(Val(dcall.mask)) :
      /\ dwpe.mask_min <= Val(dcall.mask)[b][c][f][t]
      /\ Val(dcall.mask)[b][c][f][t] <= dwpe.mask_max

\* ------------------------------------------------------ MaskReferenceChannel
\* MaskReferenceChannel.__init__: neither ref_channel nor the order of the
\* thresholds is checked
RefConfigs ==
  {[ref_channel |-> r, mask_min |-> db2mag(db[1]), mask_max |-> db2mag(db[2])] :
     r \in (0 - 2)..(MaxC - 1), db \in {<<0 - 200, 0>>, <<0 - 12, 0 - 6>>, <<0, 0 - 12>>}}

\* the channels (1-based) selected by the slice [ref_channel : ref_channel + 1]
\* of C channels: a negative index counts from the end, an empty slice is <<>>
RefSlice(ref_channel, C) ==
  IF ref_channel >= 0
  THEN (IF ref_channel < C THEN <<ref_channel + 1>> ELSE <<>>)
  ELSE (IF ref_channel + 1 < 0 /\ C + ref_channel >= 0 THEN <<C + ref_channel + 1>>
        ELSE <<>>)

\* the mask multiplied with every channel of the input
RefProduct_whole(mask, input, sel) ==
  <<Stored([b \in 1..SizeB(input) |-> [m \in 1..Max2(SizeC(mask), SizeC(input)) |->
      [f \in 1..SizeF(input) |-> [t \in 1..SizeT(input) |->
        CScale(mask[b][IF SizeC(mask) < m THEN 1 ELSE m][f][t],
               input[b][IF SizeC(input) < m THEN 1 ELSE m][f][t])]]]])>>

\* mask * input[:, ref_channel : ref_channel + 1, ...] for a clamped mask: the
\* product broadcasts over the channels, or raises when a mask of several
\* channels meets an empty slice
RefProduct(mask, input, sel) ==
  IF sel = <<>> /\ SizeC(mask) # 1 THEN <<>>
  ELSE <<Stored([b \in 1..SizeB(input) |->
           [m \in 1..(IF sel = <<>> THEN 0 ELSE SizeC(mask)) |->
             [f \in 1..SizeF(input) |-> [t \in 1..SizeT(input) |->
               CScale(mask[b][m][f][t], input[b][sel[1]][f][t])]]]])>>

\* MaskReferenceChannel.forward(input, input_length, mask)
MaskReferenceChannel_forward(self, input, input_length, mask) ==
  [pc |-> IF RefProduct(ClampMask(mask, self.mask_min, self.mask_max), input,
                        RefSlice(self.ref_channel, SizeC(input))) = <<>>
          THEN "error" ELSE "done",
   input |-> input, input_length |-> input_length, mask_arg |-> mask,
   mask |-> ClampMask(mask, self.mask_min, self.mask_max),
   result |-> <<RefProduct(ClampMask(mask, self.mask_min, self.mask_max), input,
                           RefSlice(self.ref_channel, SizeC(input))),
                input_length>>]

RefInit ==
  /\ mrc \in RefConfigs /\ rcall = Idle
  /\ conv = Idle /\ wpe = Idle /\ fcall = Idle /\ dwpe = Idle /\ dcall = Idle
  /\ gss = Idle /\ gcall = Idle /\ bf = Idle /\ bcall = Idle
  /\ s2f = Idle /\ scall = Idle

\* one call of MaskReferenceChannel.forward on the instance
RefCall ==
  \E sh \in NarrowShapes \cup Shapes, seed \in 0..MaxSeed, M \in 1..MaxM :
    /\ mrc # Idle /\ rcall.pc = "idle"
    /\ rcall' = MaskReferenceChannel_forward(mrc,
                  GenComplex(seed, sh[1], sh[2], sh[3], sh[4]),
                  GenLengths(seed, sh[1], sh[4]),
                  GenReal(seed, sh[1], M, sh[3], sh[4]))
    /\ UNCHANGED <<conv, wpe, fcall, dwpe, dcall, gss, gcall, bf, bcall, mrc, s2f, scall>>

\* an instance of either mask processor and the calls of its forward
SpecMasked ==
  /\ RefInit \/ DereverbInit
  /\ [][RefCall \/ (dwpe # Idle /\ DereverbNext)]_vars

\* the sizes (B, C, F, T) of a tensor
ShapeOf(x) == <<SizeB(x), SizeC(x), SizeF(x), SizeT(x)>>

\* C13 (as stated): the outputs of MaskReferenceChannel.forward and of
\* MaskBasedDereverbWPE.forward have the batch, frequency and time sizes and the
\* channel count of the input, for every input and every mask of M channels
C13_InputShape ==
  /\ (mrc # Idle /\ rcall.pc = "done") =>
       /\ SizeB(rcall.result[1][1]) = SizeB(rcall.input)
       /\ SizeC(rcall.result[1][1]) = SizeC(rcall.input)
  /\ (dwpe # Idle /\ dcall.pc = "done") => ShapeOf(dcall.result[1]) = ShapeOf(dcall.input)

\* C13 (amended): every call of MaskReferenceChannel.forward with ref_channel in
\* 0..C-1 returns an output with the batch, frequency and time sizes of the
\* input and as many channels as the mask; every call of
\* MaskBasedDereverbWPE.forward that returns, returns an output of the shape of
\* the input
C13_OutputShape ==
  /\ (/\ mrc # Idle /\ rcall.pc # "idle"
      /\ 0 <= mrc.ref_channel /\ mrc.ref_channel < SizeC(rcall.input)) =>
       /\ rcall.pc = "done"
       /\ ShapeOf(rcall.result[1][1]) =
            <<SizeB(rcall.input), SizeC(rcall.mask_arg), SizeF(rcall.input),
              SizeT(rcall.input)>>
  /\ (dwpe # Idle /\ dcall.pc = "done") => ShapeOf(dcall.result[1]) = ShapeOf(dcall.input)

\* a call of MaskReferenceChannel.forward with more than one input channel, more
\* than one frame and a mask whose channel count differs from the input's
C13_Witness ==
  /\ mrc # Idle /\ rcall.pc = "done"
  /\ mrc.ref_channel = 1 /\ SizeC(rcall.input) > 1 /\ SizeT(rcall.input) > 1
  /\ SizeC(rcall.mask_arg) # SizeC(rcall.input)
  /\ SizeC(rcall.result[1][1]) = SizeC(rcall.mask_arg)

\* C14: for every diag_reg the WPEFilter constructor accepts as a number (0
\* included), estimate_filter adds the same real amount
\* diag_reg * trace(Q(b,f)) + eps to every diagonal entry of the (C*L x C*L)
\* matrix Q(b,f) and leaves the other entries unchanged before the Cholesky
\* factorization, so that eps is always present on the diagonal
C14_DiagonalRegularization ==
  (fcall.pc \in {"done", "error"} /\ ~IsNone(wpe.diag_reg)) =>
    \A b \in 1..SizeB(fcall.input) : \A f \in 1..SizeF(fcall.input) :
      \A r \in 1..(SizeC(fcall.input) * wpe.filter_length) :
        \A s \in 1..(SizeC(fcall.input) * wpe.filter_length) :
          fcall.res.Q_regularized[b][f][r][s] =
            IF r = s
            THEN CAdd(ReshapeQ(fcall.res.Q[b][f], SizeC(fcall.input), wpe.filter_length)[r][r],
                      <<FAdd(FMul(Val(wpe.diag_reg),
                                  TraceReal(ReshapeQ(fcall.res.Q[b][f], SizeC(fcall.input),
                                                     wpe.filter_length))),
                             wpe.eps), 0>>)
            ELSE ReshapeQ(fcall.res.Q[b][f], SizeC(fcall.input), wpe.filter_length)[r][s]

\* C15: MaskBasedDereverbWPE.forward called with a real-valued (non-complex)
\* input fails at its assertion with an input error: it never reaches its loop
\* and produces no output
C15_RealInputRejected ==
  (dcall.pc # "idle" /\ ~IsComplexDtype(dcall.io_dtype)) =>
    /\ dcall.pc = "error" /\ dcall.error = "AssertionError"
    /\ dcall.calls = <<>> /\ dcall.result = <<>>

\* C16 (as stated): with filter_length = 1 and prediction_delay = 0, on an input
\* without a reverberant component (here: an input of a single frame, which has
\* no earlier frame to reverberate from) the estimated filter coefficients are
\* about 0 and the desired output is about the input
C16_FilterAboutZero ==
  (/\ fcall.pc = "done" /\ wpe.filter_length = 1 /\ wpe.prediction_delay = 0
   /\ SizeT(fcall.input) = 1 /\ IsNone(fcall.input_length)) =>
    \A b \in 1..SizeB(fcall.input) : \A f \in 1..SizeF(fcall.input) :
      \A m \in 1..SizeC(fcall.input) :
        /\ \A j \in 1..SizeC(fcall.input) :
             CAbs(fcall.res.G[b][m][f][j][1]) <= Scale \div 8
        /\ CAbs(CSub(fcall.res.desired_signal[b][m][f][1], fcall.input[b][m][f][1]))
             <= Scale \div 8

\* C16 (amended): with filter_length = 1 and prediction_delay = 0 the
\* convolution tensor is the input itself, so R(b,f) equals Q(b,f) and the
\* filter predicts every frame from itself: without diagonal regularization the
\* undesired component is about the input and the desired output is about 0
C16_SelfPrediction ==
  (/\ fcall.pc \in {"done", "error"}
   /\ wpe.filter_length = 1 /\ wpe.prediction_delay = 0) =>
    \A b \in 1..SizeB(fcall.input) : \A f \in 1..SizeF(fcall.input) :
      \A m \in 1..SizeC(fcall.input) :
        /\ \A t \in 1..SizeT(fcall.input) :
             fcall.res.tilde_input[b][m][f][t][1] = fcall.input[b][m][f][t]
        /\ \A j \in 1..SizeC(fcall.input) :
             fcall.res.R[b][f][j][1][m] = fcall.res.Q[b][f][j][1][m][1]
        /\ (fcall.pc = "done" /\ (IsNone(wpe.diag_reg) \/ wpe.diag_reg = Some(0))) =>
             \A t \in 1..SizeT(fcall.input) :
               CAbs(fcall.res.desired_signal[b][m][f][t]) <= Scale \div 8

\* a returned call with filter_length = 1, prediction_delay = 0 and no
\* regularization on an input of several channels and frames that is not zero
C16_Witness ==
  /\ fcall.pc = "done" /\ wpe.filter_length = 1 /\ wpe.prediction_delay = 0
  /\ wpe.diag_reg = Some(0)
  /\ SizeC(fcall.input) > 1 /\ SizeT(fcall.input) > 1
  /\ CAbs(fcall.input[1][1][1][1]) > Scale \div 2
  /\ fcall.res.G[1][1][1][1][1] # CZero
  /\ CAbs(fcall.res.desired_signal[1][1][1][1]) <= Scale \div 8

\* whether every entry of the power p equals v
UniformPower(p, v) ==
  \A b \in 1..SizeB(p) : \A c \in 1..SizeC(p) : \A f \in 1..SizeF(p) :
    \A t \in 1..SizeT(p) : p[b][c][f][t] = v

\* C17 (as stated): if the predicted power passed to WPEFilter.forward is
\* uniformly tiny, the time-frequency weight is about 0, the contribution of the
\* estimated filter vanishes and the output is about the input
C17_TinyPowerNoOp ==
  (fcall.pc = "done" /\ UniformPower(fcall.power, 0)) =>
    \A b \in 1..SizeB(fcall.input) : \A f \in 1..SizeF(fcall.input) :
      \A t \in 1..SizeT(fcall.input) :
        /\ fcall.res.weight[b][f][t] <= Scale \div 8
        /\ \A c \in 1..SizeC(fcall.input) :
             CAbs(CSub(fcall.res.desired_signal[b][c][f][t], fcall.input[b][c][f][t]))
               <= Scale \div 8

\* C17 (amended): a uniformly tiny predicted power gives every frame the
\* largest weight, 1 / eps; it is a uniformly huge predicted power that makes
\* the weight about 0, and then, with the diagonal regularization on, the
\* contribution of the estimated filter vanishes and the output is about the
\* input
C17_HugePowerNoOp ==
  /\ (fcall.pc \in {"done", "error"} /\ UniformPower(fcall.power, 0)) =>
       \A b \in 1..SizeB(fcall.input) : \A f \in 1..SizeF(fcall.input) :
         \A t \in 1..SizeT(fcall.input) :
           fcall.res.weight[b][f][t] = FDiv(Scale, wpe.eps)
  /\ (/\ fcall.pc \in {"done", "error"} /\ UniformPower(fcall.power, 128 * Scale)
      /\ ~IsNone(wpe.diag_reg) /\ wpe.diag_reg # Some(0)) =>
       /\ fcall.pc = "done"
       /\ \A b \in 1..SizeB(fcall.input) : \A f \in 1..SizeF(fcall.input) :
            \A t \in 1..SizeT(fcall.input) :
              /\ fcall.res.weight[b][f][t] <= Scale \div 8
              /\ \A c \in 1..SizeC(fcall.input) :
                   CAbs(CSub(fcall.res.desired_signal[b][c][f][t],
                             fcall.input[b][c][f][t])) <= Scale \div 8

\* a returned call with a uniformly huge power, regularization, the longest
\* filter and the largest delay on an input that is not zero where the filter
\* reaches it
C17_Witness ==
  /\ fcall.pc = "done" /\ UniformPower(fcall.power, 128 * Scale)
  /\ wpe.diag_reg = Some(Scale \div 16)
  /\ wpe.filter_length = MaxL /\ wpe.prediction_delay = MaxDelay
  /\ SizeC(fcall.input) > 1 /\ SizeT(fcall.input) = MaxN
  /\ fcall.input[1][1][1][1] # CZero
  /\ fcall.res.desired_signal[1][1][1][MaxN] = fcall.input[1][1][1][MaxN]

\* C18: the assertion of estimate_filter on the filter length never fails on a
\* call that enters through WPEFilter.forward: for every 4-D input and every
\* configured filter_length >= 1 the Q handed to estimate_filter has both tap
\* dimensions equal to the configured filter_length
C18_FilterLengthConsistent ==
  fcall.pc \in {"done", "error"} =>
    /\ fcall.res.error # "AssertionError"
    /\ \A b \in 1..SizeB(fcall.input) : \A f \in 1..SizeF(fcall.input) :
         \A j \in 1..SizeC(fcall.input) :
           /\ Len(fcall.res.Q[b][f]) = SizeC(fcall.input)
           /\ Len(fcall.res.Q[b][f][j]) = wpe.filter_length
           /\ \A k \in 1..wpe.filter_length : \A m \in 1..SizeC(fcall.input) :
                Len(fcall.res.Q[b][f][j][k][m]) = wpe.filter_length
    /\ \A b \in 1..SizeB(fcall.input) : \A c \in 1..SizeC(fcall.input) :
         \A f \in 1..SizeF(fcall.input) : \A t \in 1..SizeT(fcall.input) :
           Len(fcall.res.tilde_input[b][c][f][t]) = wpe.filter_length

\* a call with the longest filter, the largest delay and fewer frames than
\* filter taps plus delay, so that the windows reach into the padding
C18_Witness ==
  /\ fcall.pc \in {"done", "error"}
  /\ wpe.filter_length = MaxL /\ wpe.prediction_delay = MaxDelay
  /\ SizeT(fcall.input) < MaxL + MaxDelay
  /\ SizeC(fcall.input) > 1
  /\ Len(fcall.res.Q[1][1][1]) = MaxL

\* ---------------------------------------- SpectrogramToMultichannelFeatures
\* pi in the precision of the model
Pi == 201

\* torch.angle(z): the argument of z within [-pi, pi], by the approximation
\* atan(r) = r * (pi / 4 + 0.273 * (1 - r)) for a ratio r within [0, 1]
Angle(z) ==
  IF ~(IsFinite(z[1]) /\ IsFinite(z[2])) THEN NaN
  ELSE IF z[1] = 0 /\ z[2] = 0 THEN 0
  ELSE LET r == IF Abs(z[1]) >= Abs(z[2]) THEN FDiv(Abs(z[2]), Abs(z[1]))
                ELSE FDiv(Abs(z[1]), Abs(z[2]))
           atan == FMul(r, (Pi \div 4) + FMul(Scale \div 4 + 1, Scale - r))
           base == IF Abs(z[1]) >= Abs(z[2]) THEN atan ELSE (Pi \div 2) - atan
       IN  IF z[1] >= 0 THEN (IF z[2] >= 0 THEN base ELSE 0 - base)
           ELSE (IF z[2] >= 0 THEN Pi - base ELSE base - Pi)

\* wrap_to_pi(x): x modulo 2 pi, within [-pi, pi)
wrap_to_pi(x) == IF IsFinite(x) THEN ((x + Pi) % (2 * Pi)) - Pi ELSE NaN

\* SpectrogramToMultichannelFeatures.__init__: the instance, or the exception
\* raised; mag_reduction is stored as given
S2F_init(num_subbands, num_input_channels, mag_reduction, use_ipd, mag_normalization, ipd_normalization) ==
  IF ~IsNone(mag_normalization) \/ ~IsNone(ipd_normalization)
  THEN [pc |-> "error", error |-> "NotImplementedError",
        args |-> <<num_subbands, num_input_channels, mag_reduction, use_ipd,
                   mag_normalization, ipd_normalization>>]
  ELSE [pc |-> "built", error |-> "",
        args |-> <<num_subbands, num_input_channels, mag_reduction, use_ipd,
                   mag_normalization, ipd_normalization>>,
        mag_reduction |-> mag_reduction, use_ipd |-> use_ipd,
        mag_normalization |-> mag_normalization,
        ipd_normalization |-> ipd_normalization,
        num_features |-> IF use_ipd THEN 2 * num_subbands ELSE num_subbands,
        num_channels |-> IF use_ipd THEN num_input_channels
                         ELSE IF IsNone(mag_reduction) THEN num_input_channels
                         ELSE Some(1)]

\* torch.mean(input, axis=1, keepdim=True) at (b, f, t)
ChannelMean(input, b, f, t) ==
  CDivR(CSum([c \in 1..SizeC(input) |-> input[b][c][f][t]]), SizeC(input) * Scale)

\* the magnitude spectrum of forward: mag[b][c][f][t], with one channel when a
\* reduction is configured; <<>> for a reduction that forward does not know
MagnitudeSpectrum(mag_reduction, input) ==
  IF IsNone(mag_reduction) THEN Magnitude(input)
  ELSE IF Val(mag_reduction) \notin {"abs_mean", "mean_abs", "rms"} THEN <<>>
  ELSE Stored([b \in 1..SizeB(input) |-> [c \in 1..1 |-> [f \in 1..SizeF(input) |->
         [t \in 1..SizeT(input) |->
           IF Val(mag_reduction) = "abs_mean" THEN CAbs(ChannelMean(input, b, f, t))
           ELSE IF Val(mag_reduction) = "mean_abs"
           THEN FDiv(FSum([k \in 1..SizeC(input) |-> CAbs(input[b][k][f][t])]),
                     SizeC(input) * Scale)
           ELSE FSqrt(FDiv(FSum([k \in 1..SizeC(input) |->
                                  FMul(CAbs(input[b][k][f][t]), CAbs(input[b][k][f][t]))]),
                           SizeC(input) * Scale))]]]])

\* torch.cat([features.expand(ipd.shape), ipd], axis=2) with the IPD relative to
\* the mean over the channels, wrapped to [-pi, pi]
AppendIpd(mag, input) ==
  Stored([b \in 1..SizeB(input) |-> [c \in 1..SizeC(input) |->
    [f \in 1..(2 * SizeF(input)) |-> [t \in 1..SizeT(input) |->
      IF f <= SizeF(input) THEN mag[b][IF SizeC(mag) = 1 THEN 1 ELSE c][f][t]
      ELSE wrap_to_pi(FSub(Angle(input[b][c][f - SizeF(input)][t]),
                           Angle(ChannelMean(input, b, f - SizeF(input), t))))]]]])

\* forward without the comparison of the channel counts
ChannelsAccepted_any(self, features) == TRUE

\* the comparison of the channel count of the features with the configured one
ChannelsAccepted(self, features) ==
  IsNone(self.num_channels) \/ SizeC(features) = Val(self.num_channels)

\* the end of forward, from the features on
S2FReturn(self, input, input_length, features) ==
  IF ChannelsAccepted(self, features)
  THEN [pc |-> "done", error |-> "", input |-> input, input_length |-> input_length,
        features |-> features, result |-> <<features, input_length>>]
  ELSE [pc |-> "error", error |-> "RuntimeError", input |-> input,
        input_length |-> input_length, features |-> features, result |-> <<>>]

\* SpectrogramToMultichannelFeatures.forward(input, input_length)
S2F_forward(self, input, input_length) ==
  IF MagnitudeSpectrum(self.mag_reduction, input) = <<>>
  THEN [pc |-> "error", error |-> "ValueError", input |-> input,
        input_length |-> input_length, features |-> <<>>, result |-> <<>>]
  ELSE S2FReturn(self, input, input_length,
         IF self.use_ipd THEN AppendIpd(MagnitudeSpectrum(self.mag_reduction, input), input)
         ELSE MagnitudeSpectrum(self.mag_reduction, input))

\* before the constructor is called
S2FNew ==
  /\ s2f = [pc |-> "new"] /\ scall = Idle
  /\ conv = Idle /\ wpe = Idle /\ fcall = Idle /\ dwpe = Idle /\ dcall = Idle
  /\ gss = Idle /\ gcall = Idle /\ bf = Idle /\ bcall = Idle
  /\ mrc = Idle /\ rcall = Idle

\* one call of the constructor
S2FConstruct ==
  \E num_input_channels \in {None} \cup {Some(n) : n \in 1..MaxC},
     mag_reduction \in {None, Some("abs_mean"), Some("mean_abs"), Some("rms"), Some("max")},
     use_ipd \in BOOLEAN,
     norm \in {<<None, None>>, <<Some("mean"), None>>, <<None, Some("mean")>>} :
    /\ s2f.pc = "new"
    /\ s2f' = S2F_init(MaxF, num_input_channels, mag_reduction, use_ipd, norm[1], norm[2])
    /\ UNCHANGED <<conv, wpe, fcall, dwpe, dcall, gss, gcall, bf, bcall, mrc, rcall, scall>>

\* one call of forward on the instance
S2FCall ==
  \E sh \in Shapes, seed \in 0..MaxSeed :
    /\ s2f.pc = "built" /\ scall.pc = "idle"
    /\ scall' = S2F_forward(s2f, GenComplex(seed, sh[1], sh[2], sh[3], sh[4]),
                            GenLengths(seed, sh[1], sh[4]))
    /\ UNCHANGED <<conv, wpe, fcall, dwpe, dcall, gss, gcall, bf, bcall, mrc, rcall, s2f>>

SpecS2F == S2FNew /\ [][S2FConstruct \/ S2FCall]_vars

\* C19: an unknown magnitude-reduction mode (anything other than none,
\* abs_mean, mean_abs, rms) fails at construction time, so that no instance with
\* an unknown mode exists and forward never meets one
C19_UnknownModeRejected ==
  /\ (s2f.pc # "new" /\ ~IsNone(s2f.args[3])
      /\ Val(s2f.args[3]) \notin {"abs_mean", "mean_abs", "rms"}) => s2f.pc = "error"
  /\ scall.pc = "error" => scall.error # "ValueError"

\* the channel count that the claim calls configured: 1 when a reduction mode is
\* set and IPD is off, otherwise num_input_channels (an optional value)
ConfiguredChannels(self) ==
  IF ~IsNone(self.args[3]) /\ ~self.args[4] THEN Some(1) ELSE self.args[2]

\* C20 (as stated): the output channel count is fixed by the configuration and
\* is checked at every forward call: a call whose computed feature channel count
\* differs from the configured one fails with a shape error, so that forward
\* never returns features whose channel count differs from the configured
\* count; input_length is returned unchanged
C20_ChannelsAlwaysChecked ==
  (s2f.pc = "built" /\ scall.pc \in {"done", "error"} /\ scall.error # "ValueError") =>
    /\ s2f.num_channels = ConfiguredChannels(s2f)
    /\ IF <<SizeC(scall.features)>> # ConfiguredChannels(s2f)
       THEN scall.pc = "error" /\ scall.error = "RuntimeError"
       ELSE scall.pc = "done" /\ scall.result = <<scall.features, scall.input_length>>

\* C20 (amended): the configured channel count is 1 when a reduction mode is
\* set and IPD is off, otherwise num_input_channels, which may be None; when it
\* is not None every forward call compares the channel count of the features
\* with it, fails with a RuntimeError when they differ and returns features of
\* the configured count otherwise; when it is None no comparison is made and
\* the features are returned with the channel count of the input; input_length
\* is returned unchanged
C20_ChannelsCheckedWhenConfigured ==
  (s2f.pc = "built" /\ scall.pc \in {"done", "error"} /\ scall.error # "ValueError") =>
    /\ s2f.num_channels = ConfiguredChannels(s2f)
    /\ IF IsNone(ConfiguredChannels(s2f))
       THEN /\ scall.pc = "done" /\ scall.result = <<scall.features, scall.input_length>>
            /\ SizeC(scall.features) = SizeC(scall.input)
       ELSE IF SizeC(scall.features) # Val(ConfiguredChannels(s2f))
       THEN scall.pc = "error" /\ scall.error = "RuntimeError" /\ scall.result = <<>>
       ELSE scall.pc = "done" /\ scall.result = <<scall.features, scall.input_length>>

\* a call on an instance without a configured channel count: IPD features of an
\* input of several channels are returned without a comparison
C20_Witness ==
  /\ s2f.pc = "built" /\ s2f.use_ipd /\ IsNone(s2f.num_channels)
  /\ ~IsNone(s2f.mag_reduction)
  /\ scall.pc = "done"
  /\ SizeC(scall.result[1]) = MaxC /\ SizeF(scall.result[1]) = 2 * SizeF(scall.input)
  /\ scall.result[2] = scall.input_length

\* ------------------------------------ independence across batch and subbands
\* the calls of WPEFilter.forward and of MaskEstimatorGSS.forward, each on an
\* instance of its own
SpecBatchFreq ==
  (FilterInit \/ GSSInit)
    /\ [][(wpe # Idle /\ FilterCall) \/ (gss # Idle /\ GSSNext)]_vars

\* x[b:b+1, :, f:f+1, :]: batch item b and subband f of x, as a tensor with one
\* batch item and one subband
SliceBF(x, b, f) == <<[c \in 1..SizeC(x) |-> <<x[b][c][f]>>]>>

\* input_length[b:b+1]
SliceLength(input_length, b) ==
  IF IsNone(input_length) THEN None ELSE Some(<<Val(input_length)[b]>>)

\* WPEFilter.forward on batch item b and subband f of the last call's arguments
FilterAlone(b, f) ==
  WPEFilter_forward(wpe, SliceBF(fcall.input, b, f), SliceBF(fcall.power, b, f),
                    SliceLength(fcall.input_length, b))

\* update_pdf of iteration n on batch item b and subband f of what the iteration read
PdfAlone(n, b, f) ==
  update_pdf(SliceBF(gcall.z, b, f), SliceBF(GammaBefore(n), b, f),
             SliceBF(EnergyBefore(n), b, f), gss.eps)

\* update_masks of iteration n on batch item b and subband f
MasksAlone(n, b, f) ==
  update_masks(update_weights(SliceBF(GammaBefore(n), b, f)), <<gcall.activity[b]>>,
               PdfAlone(n, b, f).log_pdf, gss.eps)

\* C21: the computations of different (batch item, subband) pairs are independent.
\* The output of a call of WPEFilter.forward that returned, at batch item b and
\* subband f, is the output of forward on the input and the power at b and f
\* alone, with input_length[b].  In MaskEstimatorGSS.forward the directional
\* statistics and the initial masks at (b, f), and the energy term and the masks
\* after every EM iteration at (b, f), are those computed from the input at b
\* and f and from activity[b] alone.  Two calls that agree on these values give
\* the same result there, whatever the other batch items and subbands hold.
C21_BatchFreqIndependent ==
  /\ fcall.pc = "done" =>
       \A b \in 1..SizeB(fcall.input) : \A f \in 1..SizeF(fcall.input) :
         /\ FilterAlone(b, f).ok
         /\ FilterAlone(b, f).desired_signal = SliceBF(fcall.res.desired_signal, b, f)
  /\ gcall.pc \in {"loop", "done"} =>
       \A b \in 1..SizeB(gcall.input) : \A f \in 1..SizeF(gcall.input) :
         /\ SliceBF(gcall.z, b, f) = normalize(SliceBF(gcall.input, b, f), gss.eps)
         /\ SliceBF(gcall.gamma0, b, f) = InitGamma(<<gcall.activity[b]>>, gss.eps, 1)
         /\ \A n \in 1..Len(Steps) :
              /\ SliceBF(Steps[n].zH_invBM_z, b, f) = PdfAlone(n, b, f).zH_invBM_z
              /\ SliceBF(Steps[n].gamma, b, f) = MasksAlone(n, b, f)
  /\ gcall.pc = "done" => gcall.result = gcall.gamma

\* a call of WPEFilter.forward returned an output that is not zero, for an input
\* with several batch items and with subbands that differ from each other
C21_Witness ==
  /\ fcall.pc = "done"
  /\ SizeB(fcall.input) = MaxB /\ SizeF(fcall.input) = MaxF
  /\ \E b \in 1..MaxB : SliceBF(fcall.input, b, 1) # SliceBF(fcall.input, b, MaxF)
  /\ SliceBF(fcall.res.desired_signal, 1, 1) # SliceBF(fcall.res.desired_signal, 1, MaxF)
  /\ \E c \in 1..SizeC(fcall.input) : \E t \in 1..SizeT(fcall.input) :
       fcall.res.desired_signal[1][c][1][t] # CZero
  /\ wpe.filter_length > 1

\* ------------------------------------------- calls on one shared instance
\* a forward that keeps its loop counter in the instance: the iterations left
FieldsAfterForward_counter(self) ==
  IF "num_iterations" \in DOMAIN self /\ self.num_iterations > 0
  THEN [self EXCEPT !.num_iterations = self.num_iterations - 1]
  ELSE self

\* the fields of an instance after one of its forward calls ran: forward and the
\* methods it calls read the fields of self and assign none
FieldsAfterForward(self) == self

\* the instance of the behaviour is configured once, by its constructor
CallsInit == FilterInit \/ DereverbInit \/ GSSInit \/ BeamformerInit \/ RefInit

\* the steps of the recorded call on the instance
RecordedCall ==
  \/ wpe # Idle /\ FilterCall
  \/ dwpe # Idle /\ DereverbNext
  \/ gss # Idle /\ GSSNext
  \/ bf # Idle /\ BeamformerNext
  \/ RefCall

\* a whole forward call made on the same instance by another thread, at any
\* point of the recorded call: its locals and its result are its own, what it
\* leaves behind for the recorded call are the fields of the instance
OtherCall ==
  /\ wpe' = FieldsAfterForward(wpe) /\ dwpe' = FieldsAfterForward(dwpe)
  /\ gss' = FieldsAfterForward(gss) /\ bf' = FieldsAfterForward(bf)
  /\ mrc' = FieldsAfterForward(mrc)
  /\ UNCHANGED <<conv, fcall, dcall, gcall, bcall, rcall, s2f, scall>>

\* the recorded call has returned or raised and the caller starts over: the
\* next call on the instance can be made
NextCall ==
  /\ \E c \in {fcall, dcall, gcall, bcall, rcall} : c.pc \in {"done", "error"}
  /\ fcall' = Idle /\ dcall' = Idle /\ gcall' = Idle /\ bcall' = Idle /\ rcall' = Idle
  /\ UNCHANGED <<conv, wpe, dwpe, gss, bf, mrc, s2f, scall>>

SpecCalls == CallsInit /\ [][RecordedCall \/ OtherCall \/ NextCall]_vars

\* what the recorded call has computed so far is what the call computes from its
\* arguments and the fields of the instance when it runs alone
RunsAsAlone ==
  /\ fcall.pc \in {"done", "error"} =>
       fcall.res = WPEFilter_forward(wpe, fcall.input, fcall.power, fcall.input_length)
  /\ rcall.pc \in {"done", "error"} =>
       rcall = MaskReferenceChannel_forward(mrc, rcall.input, rcall.input_length,
                                            rcall.mask_arg)
  /\ dcall.pc \in {"loop", "done"} =>
       /\ dcall.i <= dwpe.num_iterations
       /\ dcall.pc = "done" => dcall.i = dwpe.num_iterations
       /\ \A n \in 1..Len(dcall.calls) :
            dcall.calls[n].res =
              WPEFilter_forward(dwpe.filter, dcall.calls[n].input, dcall.calls[n].power,
                                dcall.calls[n].input_length)
  /\ gcall.pc \in {"loop", "done"} =>
       /\ gcall.it <= gss.num_iterations
       /\ gcall.pc = "done" => gcall.it = gss.num_iterations
       /\ \A n \in 1..Len(gcall.steps) :
            gcall.steps[n].gamma =
              update_masks(gcall.steps[n].alpha, gcall.activity, gcall.steps[n].log_pdf,
                           gss.eps)
  /\ bcall.pc \in {"loop", "done"} =>
       \A n \in 1..Len(bcall.calls) :
         bcall.calls[n].mask_s =
           ThresholdMask(SelectMask(bcall.mask, n), bf.mask_min, bf.mask_max,
                         bcall.input_length)

RequestedSteps == IF IsNone(conv.n_steps) THEN SizeT(conv.x) ELSE Val(conv.n_steps)

\* C23: convtensor returns a tensor of shape (B, C, F, n_steps, filter_length)
\* for every requested n_steps >= 1, filter_length >= 1 and delay >= 0, with
\* n_steps the number of frames of the input when it is not given.
C23_RequestedShape ==
  conv.pc = "done" =>
    /\ Len(conv.tilde_X) = SizeB(conv.x)
    /\ \A b \in 1..SizeB(conv.x) :
         /\ Len(conv.tilde_X[b]) = SizeC(conv.x)
         /\ \A c \in 1..SizeC(conv.x) :
              /\ Len(conv.tilde_X[b][c]) = SizeF(conv.x)
              /\ \A f \in 1..SizeF(conv.x) :
                   /\ Len(conv.tilde_X[b][c][f]) = RequestedSteps
                   /\ \A t \in 1..Len(conv.tilde_X[b][c][f]) :
                        Len(conv.tilde_X[b][c][f][t]) = conv.filter_length

\* x with the frames of batch item b at and beyond lengths[b] replaced by v
Refill(x, lengths, v) ==
  Stored([b \in 1..SizeB(x) |-> [c \in 1..SizeC(x) |-> [f \in 1..SizeF(x) |->
    MaskedFillRow(x[b][c][f], lengths, b, v)]]])

\* finite values for the padded frames of the input and of the power; with the
\* power 0 - 1 the mean power plus eps is zero for eps = 1
PadFills ==
  {<<CZero, 0>>, <<<<0 - Scale, Scale \div 2>>, 0 - 1>>, <<<<3 * Scale, 0 - Scale>>, 128 * Scale>>}

\* WPEFilter.forward on the arguments of the last call with other values in the
\* padded frames
ForwardRefilled(fill) ==
  WPEFilter_forward(wpe, Refill(fcall.input, Val(fcall.input_length), fill[1]),
                    Refill(fcall.power, Val(fcall.input_length), fill[2]),
                    fcall.input_length)

\* C24: with input_length given, a call of WPEFilter.forward whose input and
\* power agree with those of the last call on the valid frames, and hold other
\* finite values at the frames t >= input_length[b], returns when the last call
\* returned, fails when it failed, and returns the same output at every
\* valid frame t < input_length[b].
C24_PaddingDoesNotLeak ==
  (fcall.pc \in {"done", "error"} /\ ~IsNone(fcall.input_length)) =>
    \A fill \in PadFills :
      /\ ForwardRefilled(fill).ok = fcall.res.ok
      /\ fcall.res.ok =>
           \A b \in 1..SizeB(fcall.input) : \A c \in 1..SizeC(fcall.input) :
             \A f \in 1..SizeF(fcall.input) :
               \A t \in 1..ValidFrames(Val(fcall.input_length), b, SizeT(fcall.input)) :
                 ForwardRefilled(fill).desired_signal[b][c][f][t] =
                   fcall.res.desired_signal[b][c][f][t]

\* a returned call with a batch item that has valid frames and padded frames,
\* a sample in a padded frame, and an output that the filter changed at a valid
\* frame
C24_Witness ==
  /\ fcall.pc = "done" /\ ~IsNone(fcall.input_length)
  /\ \E b \in 1..SizeB(fcall.input) :
       /\ Val(fcall.input_length)[b] >= 1
       /\ Val(fcall.input_length)[b] < SizeT(fcall.input)
       /\ fcall.input[b][1][1][SizeT(fcall.input)] # CZero
       /\ \E t \in 1..Val(fcall.input_length)[b] :
            /\ fcall.res.desired_signal[b][1][1][t] # CZero
            /\ fcall.res.desired_signal[b][1][1][t] # fcall.input[b][1][1][t]

\* C25: the eps clamp of the activity is applied only when the initial gamma is
\* formed, and update_masks multiplies by the activity itself: after every EM
\* iteration of MaskEstimatorGSS.forward that left no NaN, and in the masks a
\* call returns after at least one iteration, gamma(b, m, f, t) is exactly 0 for
\* every subband f whenever activity(b, m, t) is 0, and for an activity with
\* values in [0, 1] every such mask value lies in [0, 1].
C25_ActivityUnclamped ==
  /\ gcall.pc \in {"loop", "done"} => gcall.gamma0 = InitGamma(gcall.activity, gss.eps, SizeF(gcall.input))
  /\ \A n \in 1..Len(Steps) :
       (~AnyNaN(Steps[n].gamma) \/ (gcall.pc = "done" /\ n = Len(Steps))) =>
         \A b \in 1..SizeB(gcall.input) : \A m \in 1..SizeC(Steps[n].gamma) :
           \A f \in 1..SizeF(gcall.input) : \A t \in 1..SizeT(gcall.input) :
             /\ gcall.activity[b][m][t] = 0 => Steps[n].gamma[b][m][f][t] = 0
             /\ InUnit(gcall.activity) =>
                  (Steps[n].gamma[b][m][f][t] >= 0 /\ Steps[n].gamma[b][m][f][t] <= Scale)
  /\ (gcall.pc = "done" /\ Len(Steps) >= 1) => gcall.result = Steps[Len(Steps)].gamma

\* a call returned, after its iterations, masks that are 0 for a source at a
\* frame where its activity is 0 and its initial mask, from the clamped
\* activity, was not; another source is active at that frame
C25_Witness ==
  /\ gcall.pc = "done" /\ Len(Steps) = MaxIter /\ InUnit(gcall.activity)
  /\ \E m \in 1..SizeC(gcall.result) : \E k \in 1..SizeC(gcall.result) :
       \E t \in 1..SizeT(gcall.input) :
         /\ gcall.activity[1][m][t] = 0 /\ gcall.gamma0[1][m][1][t] > 0
         /\ gcall.result[1][m][1][t] = 0
         /\ gcall.activity[1][k][t] > 0 /\ gcall.result[1][k][1][t] > 0

====
